---------------------------- MODULE Spec2Model ----------------------------
(***************************************************************************)
(* A model of the go-database package: the retry executor of retry.go,     *)
(* the transaction wrappers built on it, and the migration registry.       *)
(*                                                                         *)
(* Durations are whole ticks (Go's time.Duration is an int64 count of      *)
(* nanoseconds).  Go's 64-bit two's-complement arithmetic is modelled by   *)
(* WordBits-bit two's-complement arithmetic, so that the wrap-around of    *)
(* the shift and of the multiplication happens within the model's bounds.  *)
(***************************************************************************)
EXTENDS Integers, Sequences, FiniteSets, TLC

VARIABLES
    config,     \* the RetryConfig passed to retryDatabaseOperation
    pc,         \* position of the executor: "call", "decide", "sleep", "done"
                \* ("outside" before a wrapper's first retry loop)
    err,        \* what the last invocation of operation returned
    attempt,    \* the local variable attempt
    now,        \* time.Since(startTime) at this moment
    elapsed,    \* the local variable elapsed (line 60), as last measured
    baseDelay,  \* the local variable baseDelay (pre-jitter), as last computed
    jitter,     \* the local variable jitter, as last drawn
    delay,      \* the local variable delay, as last computed
    result,     \* what retryDatabaseOperation returned ("none" while running)
    exit,       \* which return statement was taken
    calls,      \* number of invocations of operation so far
    lockErrs,   \* number of invocations that returned a transient-lock error
    sleeps,     \* number of completed or started time.Sleep calls
    slept,      \* sum of the delays handed to time.Sleep
    wrapper,    \* the function of the package the caller invoked
    phase,      \* position of the wrapper around its retry loops
    conns,      \* connections opened by the wrapper (GetDB) and not closed
    ownTx,      \* the transaction begun by the wrapper: "none", "open", "done"
    callerTx,   \* whether the caller handed an open transaction to the wrapper
    unit,       \* what the last unit of work of WithTransactionRetry did
    committed,  \* number of invocations of fn whose effects are committed
    fnCalls,    \* number of invocations of fn
    fnErr,      \* what fn returned to WithTransaction
    ret,        \* what the wrapper returned ("none" while running)
    sources,    \* globalRegistry.sources: a slice (array, len, cap)
    heap,       \* the backing arrays of the slices
    snapshot,   \* the slice a caller got from GetRegisteredSources
    registered, \* the sources registered since the last reset, in order
    lastOp,     \* the last operation on the registry or on the snapshot
    mu,         \* globalRegistry.mu: the writer and the readers holding it
    procs,      \* the goroutines calling the registry: position and locals
    completed,  \* number of RegisterMigrations calls that have returned
    tables,     \* the version-tracking tables of the database
    up,         \* the run of UpAll: position, snapshot, result
    peer,       \* the run of UpAll of another goroutine, while it waits
    tempDir,    \* the names of the files in the migrations directory "tmp"
    found       \* what the last discovery call read and returned

retryVars == <<config, pc, err, attempt, now, elapsed, baseDelay, jitter, delay,
               result, exit, calls, lockErrs, sleeps, slept>>

txVars == <<wrapper, phase, conns, ownTx, callerTx, unit, committed, fnCalls,
            fnErr, ret>>

regVars == <<sources, heap, snapshot, registered, lastOp>>

lockVars == <<mu, procs, completed>>

loadVars == <<tempDir, found>>

migVars == <<tables, up, peer, loadVars>>

vars == <<retryVars, txVars, regVars, lockVars, migVars>>

---------------------------------------------------------------------------
(* Bounds of the model.                                                    *)

WordBits == 4           \* width of the machine integer (64 in the program)
MaxBudget == 5          \* largest MaxRetryDuration tried
MaxSources == 3         \* largest number of sources in a slice
MaxRuns == 2            \* largest number of calls of UpAll

---------------------------------------------------------------------------
(* Machine integers.                                                       *)

RECURSIVE Pow2(_)
Pow2(n) == IF n = 0 THEN 1 ELSE 2 * Pow2(n - 1)

Min(a, b) == IF a < b THEN a ELSE b
Max(a, b) == IF a > b THEN a ELSE b
Abs(a) == IF a < 0 THEN -a ELSE a

\* int64(x): the value of x in WordBits-bit two's complement
Wrap(x) == ((x + Pow2(WordBits - 1)) % Pow2(WordBits)) - Pow2(WordBits - 1)

\* 1 << uint(k): one doubling per shifted position, the bit falling off the
\* top of the word once k reaches the width
RECURSIVE ShiftLeft(_, _)
ShiftLeft(x, k) == IF k = 0 THEN x ELSE ShiftLeft(Wrap(2 * x), k - 1)

---------------------------------------------------------------------------
(* Errors.  An error is modelled by its text.                              *)

Nil == "nil"
ErrLocked == "database is locked"
ErrBusy == "SQLITE_BUSY"
ErrConstraint == "UNIQUE constraint failed"

Errors == {ErrLocked, ErrBusy, ErrConstraint}
Outcomes == {Nil} \cup Errors

\* database/sql's ErrTxDone
ErrTxDone == "sql: transaction has already been committed or rolled back"

\* the transient-lock errors, by their text (for the counters)
TransientLock(e) == e \in {"database is locked", "SQLITE_BUSY"}

\* strings.Contains(err.Error(), sub) over the error texts of the model
Contains(e, sub) == e = sub

\* the negation of the condition of line 53
IsRetryableMutant(e) == ~(Contains(e, ErrLocked) /\ Contains(e, ErrBusy))
IsRetryable(e) == Contains(e, ErrLocked) \/ Contains(e, ErrBusy)

---------------------------------------------------------------------------
(* RetryConfig.                                                            *)

BaseDelays == {-1, 0, 1, 4}
MaxDelays == {-1, 0, 1, 2}
JitterPercents == {0, 50, 100, 200}     \* JitterPercent, in hundredths

RetryConfigs ==
    [MaxRetryDuration : 0..MaxBudget,
     BaseDelay        : BaseDelays,
     MaxDelay         : MaxDelays,
     JitterPercent    : JitterPercents]

---------------------------------------------------------------------------
(* The backoff computation of retryDatabaseOperation, lines 66-87.         *)

Multiplier(k) == ShiftLeft(1, k)

\* lines 68-72: baseDelay * 2^attempt, capped at maxDelay
BackoffDelayMutant(cfg, k) == Wrap(cfg.BaseDelay * Multiplier(k))
BackoffDelay(cfg, k) ==
    LET b == Wrap(cfg.BaseDelay * Multiplier(k))
    IN  IF b > cfg.MaxDelay THEN cfg.MaxDelay ELSE b

\* lines 75-76: the values time.Duration(rand.Float64()*jitterRange*2 -
\* jitterRange) can take.  rand.Float64() is in [0, 1), so the float is in
\* [-jitterRange, jitterRange) (in (jitterRange, -jitterRange] when
\* jitterRange < 0), and the conversion truncates toward zero.
JitterValues(b, j) ==
    LET r == Abs(b * j) \div 100
    IN  { t \in -r..r :
            \/ t = 0
            \/ t > 0 /\ (IF b * j > 0 THEN 100 * t < b * j ELSE 100 * t <= -(b * j))
            \/ t < 0 /\ (IF b * j > 0 THEN -(100 * t) <= b * j ELSE -(100 * t) < -(b * j)) }

\* lines 79-82
PositiveMutant(cfg, d) == IF d < 0 THEN 0 ELSE d
Positive(cfg, d) == IF d < 0 THEN cfg.BaseDelay ELSE d

\* lines 84-87
ClampToRemainingMutant(cfg, d, e) == d
ClampToRemaining(cfg, d, e) ==
    LET remaining == cfg.MaxRetryDuration - e
    IN  IF d > remaining THEN remaining ELSE d

---------------------------------------------------------------------------
(* retryDatabaseOperation.                                                 *)

\* lines 39-41: the locals of retryDatabaseOperation on entry; startTime is
\* the origin of now
EnterRetry ==
    /\ pc' = "call"
    /\ err' = Nil
    /\ attempt' = 0
    /\ now' = 0
    /\ elapsed' = 0
    /\ baseDelay' = 0
    /\ jitter' = 0
    /\ delay' = 0
    /\ result' = "none"
    /\ exit' = "none"
    /\ calls' = 0
    /\ lockErrs' = 0
    /\ sleeps' = 0
    /\ slept' = 0

NoUnit == [err |-> Nil, connected |-> FALSE, began |-> FALSE, fn |-> "none",
           committed |-> FALSE, rolledBack |-> FALSE]

\* the caller has entered retryDatabaseOperation(operation, config)
InitRetry ==
    /\ config \in RetryConfigs
    /\ pc = "call"
    /\ err = Nil
    /\ attempt = 0
    /\ now = 0
    /\ elapsed = 0
    /\ baseDelay = 0
    /\ jitter = 0
    /\ delay = 0
    /\ result = "none"
    /\ exit = "none"
    /\ calls = 0
    /\ lockErrs = 0
    /\ sleeps = 0
    /\ slept = 0

InitNoTx ==
    /\ phase = "op"
    /\ conns = 0
    /\ ownTx = "none"
    /\ callerTx = FALSE
    /\ unit = NoUnit
    /\ committed = 0
    /\ fnCalls = 0
    /\ fnErr = "none"
    /\ ret = "none"

\* the time one invocation of operation may take
OpTimes == {0, 1}

\* line 44: err = operation(), the operation returning e after time t
OperationReturns(e, t) ==
    /\ pc = "call"
    /\ err' = e
    /\ now' = now + t
    /\ lockErrs' = IF TransientLock(e) THEN lockErrs + 1 ELSE lockErrs
    /\ calls' = calls + 1
    /\ pc' = "decide"
    /\ UNCHANGED <<config, attempt, elapsed, baseDelay, jitter, delay, result,
                   exit, sleeps, slept>>

\* line 44 for an operation of the caller's that returns one of outcomes
Invoke(outcomes) ==
    /\ wrapper = "retryDatabaseOperation"
    /\ \E e \in outcomes, t \in OpTimes : OperationReturns(e, t)
    /\ UNCHANGED txVars
    /\ UNCHANGED <<regVars, lockVars, migVars>>

Return(e, why) ==
    /\ result' = e
    /\ exit' = why
    /\ pc' = "done"

\* lines 45-95: from the test of err to the call of time.Sleep
Decide ==
    /\ pc = "decide"
    /\ IF err = Nil
       THEN /\ Return(Nil, "success")
            /\ UNCHANGED <<attempt, elapsed, baseDelay, jitter, delay, sleeps,
                           slept>>
       ELSE IF ~IsRetryable(err)
       THEN /\ Return(err, "non-retryable")
            /\ UNCHANGED <<attempt, elapsed, baseDelay, jitter, delay, sleeps,
                           slept>>
       ELSE /\ elapsed' = now
            /\ IF now >= config.MaxRetryDuration
               THEN /\ Return(err, "max retry duration exceeded")
                    /\ UNCHANGED <<attempt, baseDelay, jitter, delay, sleeps,
                                   slept>>
               ELSE \E t \in JitterValues(BackoffDelay(config, attempt),
                                          config.JitterPercent) :
                      LET b == BackoffDelay(config, attempt)
                          d == ClampToRemaining(config,
                                   Positive(config, Wrap(b + t)), now)
                      IN  /\ baseDelay' = b
                          /\ jitter' = t
                          /\ delay' = d
                          /\ IF d <= 0
                             THEN /\ Return(err, "no time remaining")
                                  /\ UNCHANGED <<attempt, sleeps, slept>>
                             ELSE /\ attempt' = attempt + 1
                                  /\ pc' = "sleep"
                                  /\ sleeps' = sleeps + 1
                                  /\ slept' = slept + d
                                  /\ UNCHANGED <<result, exit>>
    /\ UNCHANGED <<config, err, now, calls, lockErrs>>
    /\ UNCHANGED txVars
    /\ UNCHANGED <<regVars, lockVars, migVars>>

\* line 96: time.Sleep(delay)
Sleep ==
    /\ pc = "sleep"
    /\ now' = now + delay
    /\ pc' = "call"
    /\ UNCHANGED <<config, err, attempt, elapsed, baseDelay, jitter, delay,
                   result, exit, calls, lockErrs, sleeps, slept>>
    /\ UNCHANGED txVars
    /\ UNCHANGED <<regVars, lockVars, migVars>>

\* an operation that may return anything
CallOperation == Invoke(Outcomes)

\* an operation that always returns a transient-lock error
CallLockedOperation == Invoke({ErrLocked, ErrBusy})

---------------------------------------------------------------------------
(* Migration sources, their files, and the version-tracking table that     *)
(* golang-migrate derives from the database URL UpAll builds.  Text is a   *)
(* sequence of pieces: the characters "?", "&", "=", "#" and "+" that the  *)
(* URL syntax gives a meaning are pieces of their own.                     *)

\* the Prefix values of the sources, as text
Chars(str) ==
    CASE str = ""       -> <<>>
      [] str = "user_"  -> <<"user_">>
      [] str = "app_"   -> <<"app_">>
      [] str = "app&x_" -> <<"app", "&", "x_">>
      [] str = "app&y_" -> <<"app", "&", "y_">>

\* part_000 lines 71-82 and registry.go lines 13-18: the sources registered
UpSource(name, dir, fs, prefix) ==
    [Name |-> name, Directory |-> dir, EmbedFS |-> fs, Prefix |-> prefix]

UpSources ==
    { UpSource("user-management", "users/migrations", "nil", "user_"),
      UpSource("app", "app/migrations", "nil", "app_"),
      UpSource("legacy", "app/migrations", "nil", ""),
      UpSource("embedded", "", "fs", ""),
      UpSource("unset", "", "nil", ""),
      UpSource("reports", "users/migrations", "nil", "app&x_"),
      UpSource("audit", "app/migrations", "nil", "app&y_") }

\* the versions of the NNN_name.up.sql files of a source
Versions(source) ==
    IF source.EmbedFS # "nil" THEN {1}
    ELSE IF source.Directory = "users/migrations" THEN {1, 2}
    ELSE IF source.Directory = "app/migrations" THEN {1, 2}
    ELSE {}

\* os.Getenv("DATABASE_FILE"), "app.db" when unset
DatabaseFile == "app.db"

DefaultMigrationsTable == <<"schema_migrations">>

\* part_003 lines 182, 239: fmt.Sprintf("sqlite://%s", databaseFile)
LegacyURL(file) == <<"sqlite://", file>>

\* part_003 lines 204, 236:
\* fmt.Sprintf("sqlite://%s?x-migrations-table=%sschema_migrations", ...)
PrefixedURL(file, prefix) ==
    <<"sqlite://", file, "?", "x-migrations-table", "=">>
        \o Chars(prefix) \o <<"schema_migrations">>

FirstIndex(s, c) ==
    IF \E i \in 1..Len(s) : s[i] = c
    THEN CHOOSE i \in 1..Len(s) : s[i] = c /\ \A j \in 1..(i - 1) : s[j] # c
    ELSE 0

Before(s, c) ==
    IF FirstIndex(s, c) = 0 THEN s ELSE SubSeq(s, 1, FirstIndex(s, c) - 1)

After(s, c) ==
    IF FirstIndex(s, c) = 0 THEN <<>>
    ELSE SubSeq(s, FirstIndex(s, c) + 1, Len(s))

\* url.QueryUnescape: "+" stands for a space
Unescape(s) == [i \in 1..Len(s) |-> IF s[i] = "+" THEN " " ELSE s[i]]

\* golang-migrate's sqlite driver, called by migrate.New (part_003 lines
\* 186, 210, 249): url.Parse drops the fragment after "#", Query().Get
\* takes the value of the first x-migrations-table pair of the query, pairs
\* being separated by "&"; an empty value means the default table
MigrationsTable(url) ==
    LET query == After(Before(url, "#"), "?")
        pair == Before(query, "&")
        value == IF Len(pair) >= 2 /\ pair[1] = "x-migrations-table"
                    /\ pair[2] = "="
                 THEN Unescape(SubSeq(pair, 3, Len(pair)))
                 ELSE <<>>
    IN  IF value = <<>> THEN DefaultMigrationsTable ELSE value

\* part_003 lines 163-177 and 234-240: the database URL for a source
DatabaseURL(source) ==
    IF source.Prefix = "" THEN LegacyURL(DatabaseFile)
    ELSE PrefixedURL(DatabaseFile, source.Prefix)

TableOf(source) == MigrationsTable(DatabaseURL(source))

TableNames == {TableOf(source) : source \in UpSources}

\* a tracking table that has not been created
NoTable == [exists |-> FALSE, version |-> 0, dirty |-> FALSE]

\* the error UpAll returns when it returns one: which runner failed, the
\* source named, and the error wrapped
NoUpAllError == [failed |-> "none", source |-> "", err |-> Nil]

\* what the call of UpAll before the current one took as its snapshot and
\* returned
NoRun == [snap |-> <<>>, ret |-> "none"]

\* the run of UpAll before its first call; ret is "none" while it runs,
\* then "nil" or "error"; handles is the number of migrate instances UpAll
\* has opened and not closed
IdleUpMutant == [pc |-> "idle", snap |-> <<>>, i |-> 0, pending |-> <<>>,
                 executed |-> <<>>, opens |-> 1, ret |-> "none",
                 error |-> NoUpAllError, runs |-> 0, before |-> NoRun,
                 handles |-> 0]
IdleUp == [pc |-> "idle", snap |-> <<>>, i |-> 0, pending |-> <<>>,
           executed |-> <<>>, opens |-> 0, ret |-> "none",
           error |-> NoUpAllError, runs |-> 0, before |-> NoRun,
           handles |-> 0]

\* no table exists and UpAll has not been called
\* the versions of a set in ascending order
RECURSIVE Ascending(_)
AscendingMutant(vs) ==
    IF vs = {} THEN <<>>
    ELSE LET v == CHOOSE x \in vs : \A y \in vs : x >= y
         IN  <<v>> \o Ascending(vs \ {v})
Ascending(vs) ==
    IF vs = {} THEN <<>>
    ELSE LET v == CHOOSE x \in vs : \A y \in vs : x <= y
         IN  <<v>> \o Ascending(vs \ {v})

\* ---------------------------------------------------------------------
\* Discovery of migration files (registry.go, part_005). A file name is the
\* sequence of its pieces: the pieces between separators, the separator
\* "_", and the suffixes ".up", ".down", ".sql", ".txt"

\* the most files the directory holds
MaxFiles == 4

\* the names the directory may hold, in the sorted order in which
\* filepath.Glob returns them
FileNames ==
    << <<"001", "_", "a", ".down", ".sql">>,
       <<"001", "_", "a", ".up", ".sql">>,
       <<"001", "_", "b", ".up", ".sql">>,
       <<"002", "_", "b", "_", "c", ".down", ".sql">>,
       <<"002", "_", "b", "_", "c", ".up", ".sql">>,
       <<"003", "_", "d", ".sql">>,
       <<"003", "_", "d", ".up", ".sql">>,
       <<"1", "_", "a", ".up", ".sql">>,
       <<"abc", "_", "e", ".up", ".sql">>,
       <<"notes", ".sql">>,
       <<"notes", ".txt">> >>

Files == {FileNames[n] : n \in DOMAIN FileNames}

\* os.ReadFile: every file has a content of its own
Content(filename) == <<"content of">> \o filename

\* strings.HasSuffix and strings.TrimSuffix
HasSuffix(str, suffix) ==
    /\ Len(str) >= Len(suffix)
    /\ SubSeq(str, Len(str) - Len(suffix) + 1, Len(str)) = suffix

TrimSuffix(str, suffix) ==
    IF HasSuffix(str, suffix) THEN SubSeq(str, 1, Len(str) - Len(suffix))
    ELSE str

\* strings.Split(str, sep): the parts between the separators, one part when
\* there is no separator
RECURSIVE Split(_, _)
Split(str, sep) ==
    IF \A n \in DOMAIN str : str[n] # sep THEN <<str>>
    ELSE LET n == FirstIndex(str, sep)
         IN  <<SubSeq(str, 1, n - 1)>> \o
             Split(SubSeq(str, n + 1, Len(str)), sep)

\* strings.Join(parts, sep)
RECURSIVE Join(_, _)
Join(parts, sep) ==
    IF parts = <<>> THEN <<>>
    ELSE IF Len(parts) = 1 THEN parts[1]
    ELSE parts[1] \o <<sep>> \o Join(Tail(parts), sep)

\* fmt.Sscanf(str, "%d", &version) for a uint: the decimal digits str
\* begins with, whatever follows them; an error when it begins with none
Sscanf(str) ==
    IF str = <<>> THEN [n |-> 0, err |-> "unexpected EOF"]
    ELSE CASE str[1] \in {"001", "1"} -> [n |-> 1, err |-> Nil]
           [] str[1] = "002" -> [n |-> 2, err |-> Nil]
           [] str[1] = "003" -> [n |-> 3, err |-> Nil]
           [] OTHER -> [n |-> 0, err |-> "expected integer"]

\* a Glob whose pattern matches every file of the directory
GlobMutant(listing) ==
    SelectSeq(FileNames, LAMBDA f : f \in listing)

\* filepath.Glob(filepath.Join(directory, "*.sql")) on a listing
Glob(listing) ==
    SelectSeq(FileNames,
              LAMBDA f : f \in listing /\ HasSuffix(f, <<".sql">>))

\* the directories that exist: os.Stat succeeds
Exists(directory) == directory = "tmp"

\* the files of a directory
Listing(directory, d) == IF directory = "tmp" THEN d ELSE {}

\* the errors of discovery: the text and what it names
NoError == [text |-> Nil, arg |-> ""]

DiscoveryError(text, arg) == [text |-> text, arg |-> arg]

\* registry.go lines 82-95
countMigrationFilesInDirectory(directory, d) ==
    IF ~Exists(directory)
    THEN [count |-> 0,
          err |-> DiscoveryError("migration directory does not exist",
                                 directory)]
    ELSE [count |-> Len(Glob(Listing(directory, d))), err |-> NoError]

\* registry.go lines 68-79
countMigrationFiles(source, d) ==
    IF source.Directory # ""
    THEN countMigrationFilesInDirectory(source.Directory, d)
    ELSE IF source.EmbedFS # "nil"
    THEN [count |-> 0, err |-> NoError]
    ELSE [count |-> 0,
          err |-> DiscoveryError("has neither Directory nor EmbedFS",
                                 source.Name)]

\* part_005 lines 139-145, 156-162: the entry of the map for a version, made
\* when the version has none
GetOrCreate(migrationMap, version, name, source) ==
    IF version \in DOMAIN migrationMap THEN migrationMap[version]
    ELSE [Version |-> version, Name |-> name, Source |-> source.Name,
          UpContent |-> <<>>, DownContent |-> <<>>]

\* part_005 lines 113-165: the loop over the entries
RECURSIVE LoadEntries(_, _, _)
LoadEntries(entries, source, migrationMap) ==
    IF entries = <<>> THEN migrationMap
    ELSE LET filename == Head(entries)
             parts == Split(filename, "_")
             scanned == Sscanf(parts[1])
             version == scanned.n
             nameAndType == Join(Tail(parts), "_")
             up_ == <<".up", ".sql">>
             down_ == <<".down", ".sql">>
         IN  IF Len(parts) < 2 \/ scanned.err # Nil
             THEN LoadEntries(Tail(entries), source, migrationMap)
             ELSE IF HasSuffix(nameAndType, up_)
             THEN LoadEntries(Tail(entries), source,
                    (version :>
                       [GetOrCreate(migrationMap, version,
                                    TrimSuffix(nameAndType, up_), source)
                          EXCEPT !.UpContent = Content(filename)])
                    @@ migrationMap)
             ELSE IF HasSuffix(nameAndType, down_)
             THEN LoadEntries(Tail(entries), source,
                    (version :>
                       [GetOrCreate(migrationMap, version,
                                    TrimSuffix(nameAndType, down_), source)
                          EXCEPT !.DownContent = Content(filename)])
                    @@ migrationMap)
             ELSE LoadEntries(Tail(entries), source, migrationMap)

\* part_005 lines 101-180: the map as a slice sorted by version
loadMigrationsFromDirectory(source, d) ==
    LET entries == Glob(Listing(source.Directory, d))
        migrationMap == LoadEntries(entries, source, <<>>)
        order == Ascending(DOMAIN migrationMap)
    IN  [migrations |-> [n \in DOMAIN order |-> migrationMap[order[n]]],
         err |-> NoError]

\* part_005 lines 183-193: a placeholder that finds nothing
loadMigrationsFromEmbed(source) == [migrations |-> <<>>, err |-> NoError]

\* part_005 lines 90-98
loadMigrationsFromSource(source, d) ==
    IF source.EmbedFS # "nil" THEN loadMigrationsFromEmbed(source)
    ELSE IF source.Directory # ""
    THEN loadMigrationsFromDirectory(source, d)
    ELSE [migrations |-> <<>>,
          err |-> DiscoveryError("has neither Directory nor EmbedFS",
                                 source.Name)]

\* part_005 lines 219-233: the first version that is not the expected one
RECURSIVE validateFrom(_, _)
validateFrom(migrations, expectedVersion) ==
    IF migrations = <<>> THEN NoError
    ELSE IF Head(migrations).Version # expectedVersion
    THEN DiscoveryError("migration sequence gap: expected version",
                        <<expectedVersion, Head(migrations).Version>>)
    ELSE validateFrom(Tail(migrations), expectedVersion + 1)

\* a sequence expected to start at version 0
validateMigrationSequenceMutant(migrations) == validateFrom(migrations, 0)
validateMigrationSequence(migrations) == validateFrom(migrations, 1)

\* part_005 lines 237-270: the strict parse of a file name, which no
\* function of the package calls
parseMigrationFilename(filename) ==
    LET base == TrimSuffix(filename, <<".sql">>)
        isUp == HasSuffix(base, <<".up">>)
        stem == IF isUp THEN TrimSuffix(base, <<".up">>)
                ELSE TrimSuffix(base, <<".down">>)
        n == FirstIndex(stem, "_")
        scanned == Sscanf(SubSeq(stem, 1, n - 1))
        bad(text) == [version |-> 0, name |-> <<>>, isUp |-> FALSE,
                      err |-> DiscoveryError(text, filename)]
    IN  IF ~HasSuffix(filename, <<".sql">>)
        THEN bad("migration file must have .sql extension")
        ELSE IF ~isUp /\ ~HasSuffix(base, <<".down">>)
        THEN bad("migration file must end with .up.sql or .down.sql")
        ELSE IF n = 0
        THEN bad("migration filename must be in format VERSION_name")
        ELSE IF scanned.err # Nil
        THEN bad("invalid version number in filename")
        ELSE [version |-> scanned.n,
              name |-> SubSeq(stem, n + 1, Len(stem)),
              isUp |-> isUp, err |-> NoError]

\* make(map[string]...): a map with no key
EmptyMap == [name \in {} |-> 0]

\* the map GetMigrationStatus returns (part_003 lines 267-270) before the
\* loop
NoStatus == [registered_sources |-> 0, sources |-> EmptyMap]

\* part_003 lines 273-285: the status of one source; the key "error" is
\* absent (Nil here) when the count succeeded
SourceStatus(source, d) ==
    LET counted == countMigrationFiles(source, d)
    IN  [name |-> source.Name,
         has_directory |-> source.Directory # "",
         has_embed |-> source.EmbedFS # "nil",
         error |-> counted.err.text,
         migration_count |->
             IF counted.err.text # Nil THEN 0 ELSE counted.count]

\* part_003 lines 272-288: the loop from the i-th source of the snapshot
\* on; an entry is stored under the Name of its source
RECURSIVE StatusEntries(_, _, _, _)
StatusEntries(snap, i, d, m) ==
    IF i > Len(snap) THEN m
    ELSE StatusEntries(snap, i + 1, d,
                       (snap[i].Name :> SourceStatus(snap[i], d)) @@ m)

\* part_003 lines 265-291: the map returned, always with a nil error
MigrationStatus(snap, d) ==
    [registered_sources |-> Len(snap),
     sources |-> StatusEntries(snap, 1, d, EmptyMap)]

\* registry.go lines 56-64: the loop from the i-th source of the snapshot
\* on; the first error ends it and nothing but the error is returned
RECURSIVE StatsEntries(_, _, _, _)
StatsEntries(snap, i, d, stats) ==
    IF i > Len(snap) THEN [stats |-> stats, err |-> NoError]
    ELSE LET counted == countMigrationFiles(snap[i], d)
         IN  IF counted.err.text # Nil
             THEN [stats |-> EmptyMap, err |-> counted.err]
             ELSE StatsEntries(snap, i + 1, d,
                               (snap[i].Name :> counted.count) @@ stats)

\* registry.go lines 52-65
MigrationStats(snap, d) == StatsEntries(snap, 1, d, EmptyMap)

\* before any discovery call
NoFound ==
    [op |-> "none", source |-> UpSource("", "", "nil", ""), listing |-> {},
     count |-> 0, migrations |-> <<>>, err |-> NoError,
     status |-> NoStatus, stats |-> EmptyMap,
     filename |-> <<>>, version |-> 0, name |-> <<>>, isUp |-> FALSE]

InitNoMigrations ==
    /\ tables = [name \in TableNames |-> NoTable]
    /\ up = IdleUp
    /\ peer = IdleUp
    /\ tempDir = {}
    /\ found = NoFound

---------------------------------------------------------------------------
(* The migration registry.  A Go slice is an array, a length and a         *)
(* capacity; two slices on the same array see each other's writes.         *)

Arrays == {1, 2, 3}     \* names of backing arrays; 0 is no array

\* registry.go lines 13-18; some of the values RegisterMigrations is called
\* with: two of the same Name, and the zero value
MigrationSources ==
    { [Name |-> "user-management", Directory |-> "migrations",
       EmbedFS |-> "nil", Prefix |-> "user_"],
      [Name |-> "user-management", Directory |-> "migrations",
       EmbedFS |-> "nil", Prefix |-> "app_"],
      [Name |-> "", Directory |-> "", EmbedFS |-> "nil", Prefix |-> ""] }

ZeroSource == [Name |-> "", Directory |-> "", EmbedFS |-> "nil", Prefix |-> ""]

\* make([]MigrationSource, 0)
EmptySlice == [arr |-> 0, len |-> 0, cap |-> 0]

NoArrays == [a \in Arrays |-> <<>>]

\* the elements of slice s: s[0], ..., s[len(s)-1]
Elems(h, s) == [i \in 1..s.len |-> h[s.arr][i]]

\* an array no slice in use points to
FreeArray(inUse) ==
    CHOOSE a \in Arrays \ inUse : \A b \in Arrays \ inUse : a <= b

\* the arrays no slice points to are garbage
Collect(h, s1, s2) ==
    [a \in Arrays |-> IF a \in {s1.arr, s2.arr} THEN h[a] ELSE <<>>]

\* append(s, v): in place when the capacity allows it, else on a new array a
\* of twice the capacity
AppendSourceMutant(h, s, v, a) ==
    IF \E i \in 1..s.len : h[s.arr][i].Name = v.Name
    THEN [heap |-> h, slice |-> s]
    ELSE IF s.len < s.cap
    THEN [heap |-> [h EXCEPT ![s.arr][s.len + 1] = v],
          slice |-> [s EXCEPT !.len = s.len + 1]]
    ELSE LET c == IF s.cap = 0 THEN 1 ELSE 2 * s.cap
         IN  [heap |-> [h EXCEPT ![a] =
                          [i \in 1..c |-> IF i <= s.len THEN h[s.arr][i]
                                          ELSE IF i = s.len + 1 THEN v
                                          ELSE ZeroSource]],
              slice |-> [arr |-> a, len |-> s.len + 1, cap |-> c]]
AppendSource(h, s, v, a) ==
    IF s.len < s.cap
    THEN [heap |-> [h EXCEPT ![s.arr][s.len + 1] = v],
          slice |-> [s EXCEPT !.len = s.len + 1]]
    ELSE LET c == IF s.cap = 0 THEN 1 ELSE 2 * s.cap
         IN  [heap |-> [h EXCEPT ![a] =
                          [i \in 1..c |-> IF i <= s.len THEN h[s.arr][i]
                                          ELSE IF i = s.len + 1 THEN v
                                          ELSE ZeroSource]],
              slice |-> [arr |-> a, len |-> s.len + 1, cap |-> c]]

\* registry.go lines 45-47: make([]MigrationSource, len(s)) on a new array a
\* and copy(sources, s)
CopySourcesMutant(h, s, a) == [heap |-> h, slice |-> s]
CopySources(h, s, a) ==
    IF s.len = 0
    THEN [heap |-> h, slice |-> EmptySlice]
    ELSE [heap |-> [h EXCEPT ![a] = [i \in 1..s.len |-> h[s.arr][i]]],
          slice |-> [arr |-> a, len |-> s.len, cap |-> s.len]]

\* registry.go lines 32-38, with the write lock held throughout
RegisterMigrations(source) ==
    /\ Len(registered) < MaxSources
    /\ LET r == AppendSource(heap, sources, source,
                             FreeArray({sources.arr, snapshot.arr}))
       IN  /\ sources' = r.slice
           /\ heap' = Collect(r.heap, r.slice, snapshot)
    /\ registered' = registered \o <<source>>
    /\ lastOp' = "register"
    /\ UNCHANGED snapshot
    /\ UNCHANGED <<retryVars, txVars, lockVars, migVars>>

\* registry.go lines 41-49, with the read lock held throughout; the caller
\* keeps the slice returned
GetRegisteredSources ==
    /\ LET r == CopySources(heap, sources, FreeArray({sources.arr}))
       IN  /\ snapshot' = r.slice
           /\ heap' = Collect(r.heap, sources, r.slice)
    /\ lastOp' = "get"
    /\ UNCHANGED <<sources, registered>>
    /\ UNCHANGED <<retryVars, txVars, lockVars, migVars>>

\* part_005 line 215: make([]MigrationSource, 0) in place of the slice s
ClearedMutant(s) == [s EXCEPT !.len = Min(s.len, 1)]
Cleared(s) == EmptySlice

\* part_005 lines 211-216 (and the reset of part_000 lines 65-68)
ClearRegistry ==
    /\ sources' = Cleared(sources)
    /\ heap' = Collect(heap, Cleared(sources), snapshot)
    /\ registered' = <<>>
    /\ lastOp' = "clear"
    /\ UNCHANGED snapshot
    /\ UNCHANGED <<retryVars, txVars, lockVars, migVars>>

\* the caller assigns snapshot[i-1] = v
CallerWrites(i, v) ==
    /\ i \in 1..snapshot.len
    /\ heap[snapshot.arr][i] # v
    /\ heap' = [heap EXCEPT ![snapshot.arr][i] = v]
    /\ lastOp' = "write"
    /\ UNCHANGED <<sources, snapshot, registered>>
    /\ UNCHANGED <<retryVars, txVars, lockVars, migVars>>

\* the caller truncates: snapshot = snapshot[:n]
CallerTruncates(n) ==
    /\ n \in 0..(snapshot.len - 1)
    /\ snapshot' = [snapshot EXCEPT !.len = n]
    /\ lastOp' = "truncate"
    /\ UNCHANGED <<sources, heap, registered>>
    /\ UNCHANGED <<retryVars, txVars, lockVars, migVars>>

\* the goroutines that call the registry concurrently
Writers == {"w1", "w2"}
Readers == {"r1", "r2"}
Procs == Writers \cup Readers

NoProc == "none"

\* a goroutine outside the registry, and the locals of its calls
IdleProc == [pc |-> "idle", source |-> ZeroSource, hdr |-> EmptySlice,
             got |-> FALSE, snap |-> <<>>]

\* no goroutine is inside the registry
InitNoCallers ==
    /\ mu = [writer |-> NoProc, readers |-> {}]
    /\ procs = [p \in Procs |-> IdleProc]
    /\ completed = 0

\* registry.go lines 27-29: the registry as the package creates it
InitNoSources ==
    /\ sources = EmptySlice
    /\ heap = NoArrays
    /\ snapshot = EmptySlice
    /\ registered = <<>>
    /\ lastOp = "none"

InitRegistry ==
    /\ InitNoSources
    /\ InitNoCallers
    /\ InitNoMigrations
    /\ config = [MaxRetryDuration |-> MaxBudget, BaseDelay |-> 1,
                 MaxDelay |-> 2, JitterPercent |-> 0]
    /\ pc = "outside"
    /\ err = Nil
    /\ attempt = 0
    /\ now = 0
    /\ elapsed = 0
    /\ baseDelay = 0
    /\ jitter = 0
    /\ delay = 0
    /\ result = "none"
    /\ exit = "none"
    /\ calls = 0
    /\ lockErrs = 0
    /\ sleeps = 0
    /\ slept = 0
    /\ wrapper = "none"
    /\ InitNoTx

NextRegistry ==
    \/ \E source \in MigrationSources : RegisterMigrations(source)
    \/ GetRegisteredSources
    \/ ClearRegistry
    \/ \E i \in 1..MaxSources, v \in MigrationSources : CallerWrites(i, v)
    \/ \E n \in 0..MaxSources : CallerTruncates(n)

SpecRegistry == InitRegistry /\ [][NextRegistry]_vars

---------------------------------------------------------------------------
(* The registry under concurrent callers: every acquisition and release of *)
(* globalRegistry.mu is a step, and so are the read and the write of       *)
(* globalRegistry.sources in the append of RegisterMigrations.             *)

\* sync.RWMutex: Lock waits until no writer and no reader holds the mutex
CanLockMutant(m) == m.readers = {}
CanLock(m) == m.writer = NoProc /\ m.readers = {}

\* sync.RWMutex: RLock waits until no writer holds the mutex
CanRLock(m) == m.writer = NoProc

\* the calls of RegisterMigrations that have not returned
InFlight == {p \in Writers : procs[p].pc # "idle"}

\* the arrays some slice header still points to
LiveArrays(sl, ps) == {sl.arr} \cup {ps[p].hdr.arr : p \in Writers}

Retain(h, sl, ps) ==
    [a \in Arrays |-> IF a \in LiveArrays(sl, ps) THEN h[a] ELSE <<>>]

\* the sources the goroutines register
RegisteredConcurrently ==
    {src \in MigrationSources : src.Name = "user-management"}

\* registry.go line 32: a goroutine calls RegisterMigrations(source)
CallRegisterMigrations(p, source) ==
    /\ p \in Writers
    /\ procs[p].pc = "idle"
    /\ completed + Cardinality(InFlight) < MaxSources
    /\ procs' = [procs EXCEPT ![p].pc = "Lock", ![p].source = source]
    /\ UNCHANGED <<mu, completed, regVars>>
    /\ UNCHANGED <<retryVars, txVars, migVars>>

\* registry.go line 33: globalRegistry.mu.Lock()
Lock(p) ==
    /\ procs[p].pc = "Lock"
    /\ CanLock(mu)
    /\ mu' = [mu EXCEPT !.writer = p]
    /\ procs' = [procs EXCEPT ![p].pc = "load"]
    /\ UNCHANGED <<completed, regVars>>
    /\ UNCHANGED <<retryVars, txVars, migVars>>

\* registry.go line 37: the read of globalRegistry.sources
LoadSources(p) ==
    /\ procs[p].pc = "load"
    /\ procs' = [procs EXCEPT ![p].pc = "store", ![p].hdr = sources]
    /\ UNCHANGED <<mu, completed, regVars>>
    /\ UNCHANGED <<retryVars, txVars, migVars>>

\* registry.go line 37: append and the write of globalRegistry.sources
StoreSources(p) ==
    /\ procs[p].pc = "store"
    /\ LET r == AppendSource(heap, procs[p].hdr, procs[p].source,
                             FreeArray(LiveArrays(sources, procs)))
           ps == [procs EXCEPT ![p].pc = "Unlock", ![p].hdr = EmptySlice]
       IN  /\ sources' = r.slice
           /\ procs' = ps
           /\ heap' = Retain(r.heap, r.slice, ps)
    /\ registered' = registered \o <<procs[p].source>>
    /\ lastOp' = "register"
    /\ UNCHANGED <<mu, completed, snapshot>>
    /\ UNCHANGED <<retryVars, txVars, migVars>>

\* registry.go line 34: the deferred globalRegistry.mu.Unlock() and the
\* return of RegisterMigrations
Unlock(p) ==
    /\ procs[p].pc = "Unlock"
    /\ mu' = [mu EXCEPT !.writer = IF mu.writer = p THEN NoProc ELSE mu.writer]
    /\ procs' = [procs EXCEPT ![p].pc = "idle"]
    /\ completed' = completed + 1
    /\ UNCHANGED regVars
    /\ UNCHANGED <<retryVars, txVars, migVars>>

\* registry.go line 41: a goroutine calls GetRegisteredSources()
CallGetRegisteredSources(p) ==
    /\ p \in Readers
    /\ procs[p].pc = "idle"
    /\ procs' = [procs EXCEPT ![p].pc = "RLock"]
    /\ UNCHANGED <<mu, completed, regVars>>
    /\ UNCHANGED <<retryVars, txVars, migVars>>

\* registry.go line 42: globalRegistry.mu.RLock()
RLock(p) ==
    /\ procs[p].pc = "RLock"
    /\ CanRLock(mu)
    /\ mu' = [mu EXCEPT !.readers = mu.readers \cup {p}]
    /\ procs' = [procs EXCEPT ![p].pc = "copy"]
    /\ UNCHANGED <<completed, regVars>>
    /\ UNCHANGED <<retryVars, txVars, migVars>>

\* registry.go lines 46-47: make and copy; the copy is held by value
CopyOut(p) ==
    /\ procs[p].pc = "copy"
    /\ LET r == CopySources(heap, sources,
                            FreeArray(LiveArrays(sources, procs)))
       IN  procs' = [procs EXCEPT ![p].pc = "RUnlock",
                                  ![p].snap = Elems(r.heap, r.slice)]
    /\ UNCHANGED <<mu, completed, regVars>>
    /\ UNCHANGED <<retryVars, txVars, migVars>>

\* registry.go lines 43 and 48: the deferred RUnlock and the return
RUnlock(p) ==
    /\ procs[p].pc = "RUnlock"
    /\ mu' = [mu EXCEPT !.readers = mu.readers \ {p}]
    /\ procs' = [procs EXCEPT ![p].pc = "idle", ![p].got = TRUE]
    /\ UNCHANGED <<completed, regVars>>
    /\ UNCHANGED <<retryVars, txVars, migVars>>

InitConcurrent == InitRegistry

NextConcurrent ==
    \/ \E p \in Writers, source \in RegisteredConcurrently :
          CallRegisterMigrations(p, source)
    \/ \E p \in Writers : Lock(p)
    \/ \E p \in Writers : LoadSources(p)
    \/ \E p \in Writers : StoreSources(p)
    \/ \E p \in Writers : Unlock(p)
    \/ \E p \in Readers : CallGetRegisteredSources(p)
    \/ \E p \in Readers : RLock(p)
    \/ \E p \in Readers : CopyOut(p)
    \/ \E p \in Readers : RUnlock(p)

SpecConcurrent == InitConcurrent /\ [][NextConcurrent]_vars

---------------------------------------------------------------------------
(* UpAll (part_003 lines 116-155) and the other readers of the registry.   *)
(* A run of UpAll is a sequence of steps: the call, one step per source    *)
(* (migrate.New and the start of m.Up()) and one per migration executed.   *)

\* what migrate.New, iofs.New and the execution of a migration can return
MigrateOutcomes == {Nil, ErrLocked, ErrConstraint}

\* part_003 line 126: the source the range loop takes in its i-th round
SourceAtMutant(snap, i) == snap[Len(snap) + 1 - i]
SourceAt(snap, i) == snap[i]

\* part_003 lines 133, 144: the error UpAll returns for a source
UpAllError(source, e) ==
    [failed |-> IF source.EmbedFS # "nil" THEN "embedded" ELSE "directory",
     source |-> source.Name, err |-> e]

\* part_003 lines 132-134, 143-145: the runner's error ends the loop and is
\* returned wrapped with the name of the source
ReturnErrorMutant(u, source, e) ==
    [u EXCEPT !.pc = "source", !.i = u.i + 1, !.pending = <<>>]
ReturnError(u, source, e) ==
    [u EXCEPT !.pc = "returned", !.pending = <<>>, !.ret = "error",
              !.error = UpAllError(source, e)]

\* part_003 lines 186, 210, 249: migrate.New (NewWithSourceInstance) has
\* returned a migrate instance, which holds a database handle of its own
OpenHandle(u) ==
    [u EXCEPT !.opens = u.opens + 1, !.handles = u.handles + 1]

\* part_003 lines 190, 214, 253: the deferred m.Close() at the return of
\* the runner
CloseHandleMutant(u) == u
CloseHandle(u) == [u EXCEPT !.handles = u.handles - 1]

\* golang-migrate's m.Up() before its first migration: the version and the
\* dirty flag of the tracking table, the check that the file of the current
\* version exists, and the versions above it; "no change" when none
PendingUpMutant(source, t) ==
    IF t.dirty THEN [err |-> "Dirty database version", versions |-> <<>>]
    ELSE IF t.version > 0 /\ t.version \notin Versions(source)
    THEN [err |-> "no migration found for version", versions |-> <<>>]
    ELSE LET above == {v \in Versions(source) : v # t.version}
         IN  IF above = {} THEN [err |-> "no change", versions |-> <<>>]
             ELSE [err |-> Nil, versions |-> Ascending(above)]
PendingUp(source, t) ==
    IF t.dirty THEN [err |-> "Dirty database version", versions |-> <<>>]
    ELSE IF t.version > 0 /\ t.version \notin Versions(source)
    THEN [err |-> "no migration found for version", versions |-> <<>>]
    ELSE LET above == {v \in Versions(source) : v > t.version}
         IN  IF above = {} THEN [err |-> "no change", versions |-> <<>>]
             ELSE [err |-> Nil, versions |-> Ascending(above)]

\* part_003 lines 119-123: the call of UpAll, its snapshot, and the return
\* for an empty registry
UpAllCall ==
    /\ up.pc \in {"idle", "returned"}
    /\ up.runs < MaxRuns
    /\ LET r == CopySources(heap, sources, FreeArray({sources.arr}))
           snap == Elems(r.heap, r.slice)
       IN  up' = [IdleUp EXCEPT
                    !.pc = IF snap = <<>> THEN "returned" ELSE "source",
                    !.snap = snap,
                    !.i = 1,
                    !.ret = IF snap = <<>> THEN Nil ELSE "none",
                    !.runs = up.runs + 1,
                    !.before = [snap |-> up.snap, ret |-> up.ret],
                    !.handles = up.handles]
    /\ lastOp' = "UpAll"
    /\ UNCHANGED <<tables, sources, heap, snapshot, registered>>
    /\ UNCHANGED <<retryVars, txVars, lockVars, loadVars, peer>>

\* part_003 lines 126-155: the next source of the loop; lines 162-262 up to
\* the first migration of m.Up()
UpAllSource ==
    /\ up.pc = "source"
    /\ IF up.i > Len(up.snap)
       THEN /\ up' = [up EXCEPT !.pc = "returned", !.ret = Nil]
            /\ UNCHANGED tables
       ELSE LET source == SourceAt(up.snap, up.i)
                name == TableOf(source)
            IN  IF source.EmbedFS = "nil" /\ source.Directory = ""
                THEN /\ up' = [up EXCEPT !.i = up.i + 1]
                     /\ UNCHANGED tables
                ELSE \E e \in MigrateOutcomes :
                       IF e # Nil
                       THEN /\ up' = ReturnError(up, source, e)
                            /\ UNCHANGED tables
                       ELSE LET t == [tables[name] EXCEPT !.exists = TRUE]
                                p == PendingUp(source, t)
                            IN  /\ tables' = [tables EXCEPT ![name] = t]
                                /\ up' =
                                     IF p.err = "no change"
                                     THEN CloseHandle(OpenHandle(
                                            [up EXCEPT !.i = up.i + 1]))
                                     ELSE IF p.err # Nil
                                     THEN ReturnError(
                                            CloseHandle(OpenHandle(up)),
                                            source, p.err)
                                     ELSE OpenHandle(
                                            [up EXCEPT !.pc = "marking",
                                               !.pending = p.versions])
    /\ UNCHANGED regVars
    /\ UNCHANGED <<retryVars, txVars, lockVars, loadVars, peer>>

\* the outcomes of golang-migrate's SetVersion, which rewrites the one row
\* of the tracking table in a transaction of its own
SetVersionOutcomes == {Nil, ErrLocked}

\* m.Up() (part_003 lines 193, 217, 256) takes three steps for a migration,
\* each a call of the database of its own; the database keeps what a step
\* wrote when a later step fails or the process stops. First golang-migrate
\* records the version with the dirty flag set
UpAllMark ==
    /\ up.pc = "marking"
    /\ LET source == SourceAt(up.snap, up.i)
           name == TableOf(source)
           v == Head(up.pending)
       IN  \E e \in SetVersionOutcomes :
             IF e # Nil
             THEN /\ up' = ReturnError(CloseHandle(up), source, e)
                  /\ UNCHANGED tables
             ELSE /\ tables' = [tables EXCEPT ![name].version = v,
                                              ![name].dirty = TRUE]
                  /\ up' = [up EXCEPT !.pc = "migrating"]
    /\ UNCHANGED regVars
    /\ UNCHANGED <<retryVars, txVars, lockVars, loadVars, peer>>

\* then it executes the up statements of the version, in one transaction;
\* UpAll returns the error when they fail
UpAllMigrate ==
    /\ up.pc = "migrating"
    /\ LET source == SourceAt(up.snap, up.i)
           v == Head(up.pending)
       IN  \E e \in MigrateOutcomes :
             up' = IF e # Nil
                   THEN ReturnError(CloseHandle(up), source, e)
                   ELSE [up EXCEPT !.pc = "recording",
                           !.executed = up.executed \o
                                        <<[i |-> up.i, version |-> v]>>]
    /\ UNCHANGED tables
    /\ UNCHANGED regVars
    /\ UNCHANGED <<retryVars, txVars, lockVars, loadVars, peer>>

\* and then it records the version again with the dirty flag cleared, and
\* goes on with the next version, or UpAll with the next source
UpAllRecord ==
    /\ up.pc = "recording"
    /\ LET source == SourceAt(up.snap, up.i)
           name == TableOf(source)
       IN  \E e \in SetVersionOutcomes :
             IF e # Nil
             THEN /\ up' = ReturnError(CloseHandle(up), source, e)
                  /\ UNCHANGED tables
             ELSE /\ tables' = [tables EXCEPT ![name].dirty = FALSE]
                  /\ up' = IF Tail(up.pending) = <<>>
                           THEN CloseHandle(
                                  [up EXCEPT !.pc = "source",
                                     !.i = up.i + 1, !.pending = <<>>])
                           ELSE [up EXCEPT !.pc = "marking",
                                   !.pending = Tail(up.pending)]
    /\ UNCHANGED regVars
    /\ UNCHANGED <<retryVars, txVars, lockVars, loadVars, peer>>

\* GetMigrationStats (registry.go lines 51-65), GetMigrationStatus
\* (part_003 lines 265-291) and GetAllMigrations (part_005 lines 63-87):
\* each takes the snapshot of GetRegisteredSources into a local variable,
\* reads the files of its sources, and drops the snapshot when it returns;
\* the program calls one function of the package at a time
ReadRegistry(op) ==
    /\ up.pc \in {"idle", "returned"}
    /\ LET r == CopySources(heap, sources, FreeArray({sources.arr}))
       IN  heap' = Collect(r.heap, sources, snapshot)
    /\ lastOp' = op
    /\ UNCHANGED <<sources, snapshot, registered>>
    /\ UNCHANGED <<retryVars, txVars, lockVars, migVars>>

GetMigrationStats == ReadRegistry("GetMigrationStats")

GetMigrationStatus == ReadRegistry("GetMigrationStatus")

GetAllMigrations == ReadRegistry("GetAllMigrations")

InitUpAll == InitRegistry

\* The packages register their sources (in their init functions, or a test
\* after its reset) before the program calls UpAll.
RegisterAtInit(source) ==
    /\ up.pc = "idle"
    /\ RegisterMigrations(source)

\* a test resets the registry before it registers its own sources
ClearForTest ==
    /\ up.pc \in {"idle", "returned"}
    /\ ClearRegistry

NextUpAll ==
    \/ \E source \in UpSources : RegisterAtInit(source)
    \/ ClearForTest
    \/ GetMigrationStats
    \/ GetMigrationStatus
    \/ GetAllMigrations
    \/ UpAllCall
    \/ UpAllSource
    \/ UpAllMark
    \/ UpAllMigrate
    \/ UpAllRecord

SpecUpAll == InitUpAll /\ [][NextUpAll]_vars

---------------------------------------------------------------------------
(* Two goroutines call UpAll at the same time.  Neither UpAll nor the      *)
(* runners take a lock (part_003 lines 116-262), and the Lock of           *)
(* golang-migrate's sqlite driver is a flag of the one migrate instance,   *)
(* so each run reads the tracking table and works through the versions it  *)
(* found pending, one database call at a time.  The variable up is the run *)
(* of the goroutine that is scheduled, peer the run of the other.          *)

\* the sources the two runs work on
ConcurrentSources ==
    { UpSource("user-management", "users/migrations", "nil", "user_"),
      UpSource("legacy", "app/migrations", "nil", "") }

\* the sources are registered before either goroutine calls UpAll
RegisterBeforeRuns(source) ==
    /\ up.pc = "idle"
    /\ peer.pc = "idle"
    /\ RegisterMigrations(source)

\* each goroutine calls UpAll once
UpAllOnce ==
    /\ up.runs = 0
    /\ UpAllCall

\* the scheduler goes on with the other goroutine
SwitchGoroutine ==
    /\ up # peer
    /\ up' = peer
    /\ peer' = up
    /\ UNCHANGED tables
    /\ UNCHANGED <<retryVars, txVars, regVars, lockVars, loadVars>>

NextUpAllConcurrent ==
    \/ \E source \in ConcurrentSources : RegisterBeforeRuns(source)
    \/ UpAllOnce
    \/ SwitchGoroutine
    \/ UpAllSource
    \/ UpAllMark
    \/ UpAllMigrate
    \/ UpAllRecord

SpecUpAllConcurrent == InitUpAll /\ [][NextUpAllConcurrent]_vars

\* ---------------------------------------------------------------------
\* Migrator (migrator.go): the explicit operations on one database

\* the largest number of steps a caller passes to Down
MaxSteps == 2

\* migrator.go lines 31-71: the Config of NewMigrator with DatabasePath and
\* MigrationsPath set; the database URL is sqlite://<path> (line 38), so the
\* Migrator works on the default tracking table
MigratorConfig ==
    [DatabasePath |-> DatabaseFile, MigrationsPath |-> "app/migrations"]

MigratorTable == MigrationsTable(LegacyURL(MigratorConfig.DatabasePath))

MigratorVersions ==
    Versions(UpSource("", MigratorConfig.MigrationsPath, "nil", ""))

\* the version below cur among the files, 0 (no version) when there is none
Previous(vs, cur) ==
    LET lower == {v \in vs : v < cur}
    IN  IF lower = {} THEN 0
        ELSE CHOOSE x \in lower : \A y \in lower : x >= y

\* the versions golang-migrate records one after the other when it runs
\* the down migrations of `steps` versions from cur
RECURSIVE DownPath(_, _, _)
DownPath(vs, cur, steps) ==
    IF steps = 0 \/ cur = 0 THEN <<>>
    ELSE <<Previous(vs, cur)>> \o DownPath(vs, Previous(vs, cur), steps - 1)

\* the versions recorded on the way from cur to the version asked for
GotoPath(vs, cur, version) ==
    IF version > cur
    THEN Ascending({v \in vs : v > cur /\ v <= version})
    ELSE DownPath(vs, cur, Cardinality({v \in vs : v > version /\ v <= cur}))

\* golang-migrate running the migrations of a path: each records its target
\* version as dirty, runs, and clears the flag; the first failure ends the
\* operation and leaves its target recorded dirty
RunPath(path, op) ==
    /\ up.pc \in {"idle", "returned"}
    /\ LET t == tables[MigratorTable]
       IN  IF t.dirty \/ path = <<>>
           THEN tables' = [tables EXCEPT ![MigratorTable].exists = TRUE]
           ELSE \E k \in 1..Len(path), e \in MigrateOutcomes :
                  /\ e = Nil => k = Len(path)
                  /\ tables' = [tables EXCEPT ![MigratorTable] =
                                   [exists |-> TRUE, version |-> path[k],
                                    dirty |-> (e # Nil)]]
    /\ lastOp' = op
    /\ UNCHANGED <<up, peer, sources, heap, snapshot, registered>>
    /\ UNCHANGED <<retryVars, txVars, lockVars, loadVars>>

\* migrator.go lines 166-172: Down rolls back `steps` migrations
MigratorDown(steps) ==
    /\ steps > 0
    /\ RunPath(DownPath(MigratorVersions, tables[MigratorTable].version,
                        steps), "Down")

\* migrator.go lines 175-181: Goto migrates up or down to a version that has
\* a file
MigratorGoto(version) ==
    /\ version \in MigratorVersions
    /\ RunPath(GotoPath(MigratorVersions, tables[MigratorTable].version,
                        version), "Goto")

\* migrator.go lines 196-202: Force records a version (0: none) and clears
\* the dirty flag, running nothing
MigratorForce(version) ==
    /\ up.pc \in {"idle", "returned"}
    /\ \E e \in SetVersionOutcomes :
         tables' = IF e # Nil
                   THEN [tables EXCEPT ![MigratorTable].exists = TRUE]
                   ELSE [tables EXCEPT ![MigratorTable] =
                            [exists |-> TRUE, version |-> version,
                             dirty |-> FALSE]]
    /\ lastOp' = "Force"
    /\ UNCHANGED <<up, peer, sources, heap, snapshot, registered>>
    /\ UNCHANGED <<retryVars, txVars, lockVars, loadVars>>

\* migrator.go lines 205-211: Drop drops every table of the database, the
\* tracking tables of all sources among them
MigratorDrop ==
    /\ up.pc \in {"idle", "returned"}
    /\ \E e \in SetVersionOutcomes :
         tables' = IF e # Nil
                   THEN [tables EXCEPT ![MigratorTable].exists = TRUE]
                   ELSE [name \in TableNames |-> NoTable]
    /\ lastOp' = "Drop"
    /\ UNCHANGED <<up, peer, sources, heap, snapshot, registered>>
    /\ UNCHANGED <<retryVars, txVars, lockVars, loadVars>>

\* the sources registered where the Migrator is used: one on the default
\* table and one on a table of its own
MigratorSources ==
    {source \in UpSources : source.Name \in {"legacy", "app"}}

RegisterForMigrator(source) ==
    /\ source \in MigratorSources
    /\ RegisterAtInit(source)

NextMigrator ==
    \/ \E source \in UpSources : RegisterForMigrator(source)
    \/ UpAllCall
    \/ UpAllSource
    \/ UpAllMark
    \/ UpAllMigrate
    \/ UpAllRecord
    \/ \E steps \in 1..MaxSteps : MigratorDown(steps)
    \/ \E version \in MigratorVersions \cup {0} : MigratorGoto(version)
    \/ \E version \in MigratorVersions \cup {0} : MigratorForce(version)
    \/ MigratorDrop

SpecMigrator == InitUpAll /\ [][NextMigrator]_vars

\* ---------------------------------------------------------------------
\* Discovery calls on one source and the directory "tmp"

\* the sources handed to the discovery functions: a directory source (as in
\* part_002 lines 23-27), a directory that does not exist, an embedded
\* source, one with neither location, and one with both
DiscoverySources ==
    { UpSource("test-source", "tmp", "nil", "test_"),
      UpSource("gone", "missing", "nil", ""),
      UpSource("embedded", "", "fs", ""),
      UpSource("unset", "", "nil", ""),
      UpSource("both", "tmp", "fs", "") }

\* os.WriteFile of a new file into the directory (part_002 lines 19-20)
WriteFile(filename) ==
    /\ filename \in Files \ tempDir
    /\ Cardinality(tempDir) < MaxFiles
    /\ tempDir' = tempDir \cup {filename}
    /\ UNCHANGED <<found, tables, up, peer>>
    /\ UNCHANGED <<retryVars, txVars, regVars, lockVars>>

\* a call of countMigrationFiles (registry.go lines 68-79)
CallCountMigrationFiles(source) ==
    /\ LET r == countMigrationFiles(source, tempDir)
       IN  found' = [NoFound EXCEPT !.op = "countMigrationFiles",
                       !.source = source,
                       !.listing = Listing(source.Directory, tempDir),
                       !.count = r.count,
                       !.err = r.err]
    /\ UNCHANGED <<tempDir, tables, up, peer>>
    /\ UNCHANGED <<retryVars, txVars, regVars, lockVars>>

\* a call of loadMigrationsFromSource (part_005 lines 90-98)
CallLoadMigrationsFromSource(source) ==
    /\ LET r == loadMigrationsFromSource(source, tempDir)
       IN  found' = [NoFound EXCEPT !.op = "loadMigrationsFromSource",
                       !.source = source,
                       !.listing = Listing(source.Directory, tempDir),
                       !.migrations = r.migrations,
                       !.err = r.err]
    /\ UNCHANGED <<tempDir, tables, up, peer>>
    /\ UNCHANGED <<retryVars, txVars, regVars, lockVars>>

InitDiscovery == InitRegistry

NextDiscovery ==
    \/ \E filename \in Files : WriteFile(filename)
    \/ \E source \in DiscoverySources : CallCountMigrationFiles(source)
    \/ \E source \in DiscoverySources : CallLoadMigrationsFromSource(source)

SpecDiscovery == InitDiscovery /\ [][NextDiscovery]_vars

---------------------------------------------------------------------------
(* Status and statistics.  A program writes its migration files, registers *)
(* its sources, and then asks for the status: what the two functions       *)
(* return depends on the registry and the directory as they are at the     *)
(* call.                                                                   *)

\* the sources registered: two of the same Name in different directories,
\* one embedded, one with no location
StatusSources ==
    { UpSource("test-source", "tmp", "nil", "test_"),
      UpSource("test-source", "missing", "nil", ""),
      UpSource("embedded", "", "fs", ""),
      UpSource("unset", "", "nil", "") }

\* os.WriteFile before the sources are registered (part_002 lines 19-26)
WriteBeforeRegistering(filename) ==
    /\ registered = <<>>
    /\ found.op = "none"
    /\ WriteFile(filename)

\* RegisterMigrations before the first status call (part_002 lines 24-26)
RegisterBeforeStatus(source) ==
    /\ found.op = "none"
    /\ RegisterMigrations(source)

\* a call of GetMigrationStatus (part_003 lines 265-291): the snapshot of
\* GetRegisteredSources is a local variable, dropped at the return
CallGetMigrationStatus ==
    /\ LET r == CopySources(heap, sources, FreeArray({sources.arr}))
           snap == Elems(r.heap, r.slice)
       IN  /\ heap' = Collect(r.heap, sources, snapshot)
           /\ found' = [NoFound EXCEPT !.op = "GetMigrationStatus",
                          !.status = MigrationStatus(snap, tempDir)]
    /\ lastOp' = "GetMigrationStatus"
    /\ UNCHANGED <<sources, snapshot, registered, tempDir, tables, up, peer>>
    /\ UNCHANGED <<retryVars, txVars, lockVars>>

\* a call of GetMigrationStats (registry.go lines 52-65)
CallGetMigrationStats ==
    /\ LET r == CopySources(heap, sources, FreeArray({sources.arr}))
           snap == Elems(r.heap, r.slice)
           returned == MigrationStats(snap, tempDir)
       IN  /\ heap' = Collect(r.heap, sources, snapshot)
           /\ found' = [NoFound EXCEPT !.op = "GetMigrationStats",
                          !.stats = returned.stats,
                          !.err = returned.err]
    /\ lastOp' = "GetMigrationStats"
    /\ UNCHANGED <<sources, snapshot, registered, tempDir, tables, up, peer>>
    /\ UNCHANGED <<retryVars, txVars, lockVars>>

InitStatus == InitRegistry

NextStatus ==
    \/ \E filename \in Files : WriteBeforeRegistering(filename)
    \/ \E source \in StatusSources : RegisterBeforeStatus(source)
    \/ CallGetMigrationStatus
    \/ CallGetMigrationStats

SpecStatus == InitStatus /\ [][NextStatus]_vars

---------------------------------------------------------------------------
(* The two helpers of the loader, validateMigrationSequence and            *)
(* parseMigrationFilename, called on their own.                            *)

MaxMigrations == 3      \* longest slice given to validateMigrationSequence
MaxVersion == 4         \* largest Version in such a slice

\* part_005 lines 23-29: a migration of a version
MigrationOf(version) ==
    [Version |-> version, Name |-> <<"a">>, Source |-> "test-source",
     UpContent |-> <<>>, DownContent |-> <<>>]

\* the slices of up to MaxMigrations migrations, in any order, with
\* versions from 0 (a uint) to MaxVersion
MigrationSlices ==
    UNION {[1..n -> {MigrationOf(v) : v \in 0..MaxVersion}] :
              n \in 0..MaxMigrations}

\* the file names given to parseMigrationFilename: a version part (empty,
\* digits, letters, digits before letters, letters before digits), with or
\* without the separator, a name, a direction and an extension
VersionParts ==
    {<<>>, <<"1">>, <<"001">>, <<"002">>, <<"003">>, <<"abc">>,
     <<"1", "abc">>, <<"abc", "1">>}

NameParts == {<<>>, <<"a">>, <<"b", "_", "c">>}

ParseInputs ==
    {v \o s \o n \o d \o x :
        v \in VersionParts, s \in {<<>>, <<"_">>}, n \in NameParts,
        d \in {<<>>, <<".up">>, <<".down">>},
        x \in {<<>>, <<".sql">>, <<".txt">>}}

\* a call of validateMigrationSequence (part_005 lines 219-233)
CallValidateMigrationSequence(migrations) ==
    /\ found' = [NoFound EXCEPT !.op = "validateMigrationSequence",
                   !.migrations = migrations,
                   !.err = validateMigrationSequence(migrations)]
    /\ UNCHANGED <<tempDir, tables, up, peer>>
    /\ UNCHANGED <<retryVars, txVars, regVars, lockVars>>

\* a call of parseMigrationFilename (part_005 lines 237-270)
CallParseMigrationFilename(filename) ==
    /\ LET r == parseMigrationFilename(filename)
       IN  found' = [NoFound EXCEPT !.op = "parseMigrationFilename",
                       !.filename = filename,
                       !.version = r.version,
                       !.name = r.name,
                       !.isUp = r.isUp,
                       !.err = r.err]
    /\ UNCHANGED <<tempDir, tables, up, peer>>
    /\ UNCHANGED <<retryVars, txVars, regVars, lockVars>>

InitHelpers == InitRegistry

NextHelpers ==
    \/ \E migrations \in MigrationSlices :
          CallValidateMigrationSequence(migrations)
    \/ \E filename \in ParseInputs : CallParseMigrationFilename(filename)

SpecHelpers == InitHelpers /\ [][NextHelpers]_vars

---------------------------------------------------------------------------
(* The transaction wrappers.  They pass DefaultRetryConfig(), whose values *)
(* (30 s, 10 ms, 1 s, 0.25) lie outside the tick range of the model: the   *)
(* wrappers are modelled for every RetryConfig of the model of that shape, *)
(* 0 < BaseDelay <= MaxDelay <= MaxRetryDuration and a jitter below 100%.  *)

\* retry.go lines 13-16 and 28-35
DefaultRetryConfigs ==
    { c \in RetryConfigs : /\ 0 < c.BaseDelay
                           /\ c.BaseDelay <= c.MaxDelay
                           /\ c.MaxDelay <= c.MaxRetryDuration
                           /\ c.JitterPercent < 100 }

TxOpWrappers == {"TxExecWithRetry", "TxQueryWithRetry", "TxRetryRow.Scan"}
TxWrappers == {"WithTransactionRetry", "WithTransaction"} \cup TxOpWrappers

\* retry.go lines 214-239, the closure WithTransactionRetry hands to
\* retryDatabaseOperation, given what GetDB, db.Begin, fn, tx.Rollback and
\* tx.Commit return: what the closure returns and what it did.  The deferred
\* db.Close() leaves no connection open.
UnitOfWorkMutant(dbErr, beginErr, fnE, rollbackErr, commitErr) ==
    IF dbErr # Nil
    THEN [NoUnit EXCEPT !.err = dbErr]
    ELSE IF beginErr # Nil
    THEN [NoUnit EXCEPT !.err = beginErr, !.connected = TRUE]
    ELSE [err |-> IF fnE # Nil THEN fnE ELSE commitErr,
          connected |-> TRUE, began |-> TRUE, fn |-> fnE,
          committed |-> (commitErr = Nil), rolledBack |-> FALSE]
UnitOfWork(dbErr, beginErr, fnE, rollbackErr, commitErr) ==
    IF dbErr # Nil
    THEN [NoUnit EXCEPT !.err = dbErr]
    ELSE IF beginErr # Nil
    THEN [NoUnit EXCEPT !.err = beginErr, !.connected = TRUE]
    ELSE IF fnE # Nil
    THEN [err |-> fnE, connected |-> TRUE, began |-> TRUE, fn |-> fnE,
          committed |-> FALSE, rolledBack |-> (rollbackErr = Nil)]
    ELSE [err |-> commitErr, connected |-> TRUE, began |-> TRUE, fn |-> Nil,
          committed |-> (commitErr = Nil), rolledBack |-> FALSE]

UnitsOfWork ==
    { UnitOfWork(d, b, f, r, c) : d \in Outcomes, b \in Outcomes,
                                  f \in Outcomes, r \in Outcomes,
                                  c \in Outcomes }

\* retry.go lines 214-239: one invocation of the closure of
\* WithTransactionRetry
TransactionAttempt ==
    /\ wrapper = "WithTransactionRetry"
    /\ \E u \in UnitsOfWork, t \in OpTimes :
          /\ OperationReturns(u.err, t)
          /\ unit' = u
          /\ committed' = IF u.committed THEN committed + 1 ELSE committed
          /\ fnCalls' = IF u.fn # "none" THEN fnCalls + 1 ELSE fnCalls
    /\ UNCHANGED <<wrapper, phase, conns, ownTx, callerTx, fnErr, ret>>
    /\ UNCHANGED <<regVars, lockVars, migVars>>

\* retry.go lines 161-164, 174-177, 202-206: tx.Exec, tx.Query or
\* tx.QueryRow(...).Scan on the transaction the caller handed over
TxCall ==
    /\ wrapper \in TxOpWrappers
    /\ \E e \in Outcomes, t \in OpTimes : OperationReturns(e, t)
    /\ UNCHANGED txVars
    /\ UNCHANGED <<regVars, lockVars, migVars>>

\* the return of a wrapper that is one call of retryDatabaseOperation
WrapperReturn ==
    /\ wrapper \in TxWrappers \ {"WithTransaction"}
    /\ phase = "op"
    /\ pc = "done"
    /\ ret' = result
    /\ phase' = "returned"
    /\ UNCHANGED <<wrapper, conns, ownTx, callerTx, unit, committed, fnCalls,
                   fnErr>>
    /\ UNCHANGED retryVars
    /\ UNCHANGED <<regVars, lockVars, migVars>>

\* WithTransaction, lines 211-215: GetDB and the deferred db.Close()
WithTransactionGetDB ==
    /\ wrapper = "WithTransaction"
    /\ phase = "getdb"
    /\ \E e \in Outcomes :
          IF e = Nil
          THEN /\ conns' = conns + 1
               /\ phase' = "begin"
               /\ EnterRetry
               /\ UNCHANGED <<config, ret>>
          ELSE /\ ret' = e
               /\ phase' = "returned"
               /\ UNCHANGED <<conns, retryVars>>
    /\ UNCHANGED <<wrapper, ownTx, callerTx, unit, committed, fnCalls, fnErr>>
    /\ UNCHANGED <<regVars, lockVars, migVars>>

\* WithTransaction, lines 219-222: tx, err = db.Begin() under retry
WithTransactionBegin ==
    /\ wrapper = "WithTransaction"
    /\ phase = "begin"
    /\ \E e \in Outcomes, t \in OpTimes :
          /\ OperationReturns(e, t)
          /\ ownTx' = IF e = Nil THEN "open" ELSE ownTx
    /\ UNCHANGED <<wrapper, phase, conns, callerTx, unit, committed, fnCalls,
                   fnErr, ret>>
    /\ UNCHANGED <<regVars, lockVars, migVars>>

\* WithTransaction, lines 223-238: after the retry of Begin, return its
\* error or call fn(tx), then enter the retry of Rollback or of Commit
WithTransactionFn ==
    /\ wrapper = "WithTransaction"
    /\ phase = "begin"
    /\ pc = "done"
    /\ IF result # Nil
       THEN /\ ret' = result
            /\ conns' = conns - 1
            /\ phase' = "returned"
            /\ UNCHANGED <<fnErr, fnCalls, retryVars>>
       ELSE \E e \in Outcomes :
              /\ fnErr' = e
              /\ fnCalls' = fnCalls + 1
              /\ phase' = IF e # Nil THEN "rollback" ELSE "commit"
              /\ EnterRetry
              /\ UNCHANGED <<config, conns, ret>>
    /\ UNCHANGED <<wrapper, ownTx, callerTx, unit, committed>>
    /\ UNCHANGED <<regVars, lockVars, migVars>>

\* database/sql: the first Rollback or Commit of a transaction ends it
\* whatever the driver answers; a later one returns ErrTxDone
EndTx(outcomes) == IF ownTx = "open" THEN outcomes ELSE {ErrTxDone}

\* WithTransaction, lines 230-232: tx.Rollback() under retry
WithTransactionRollback ==
    /\ wrapper = "WithTransaction"
    /\ phase = "rollback"
    /\ \E e \in EndTx(Outcomes), t \in OpTimes : OperationReturns(e, t)
    /\ ownTx' = "done"
    /\ UNCHANGED <<wrapper, phase, conns, callerTx, unit, committed, fnCalls,
                   fnErr, ret>>
    /\ UNCHANGED <<regVars, lockVars, migVars>>

\* WithTransaction, lines 241-243: tx.Commit() under retry
WithTransactionCommit ==
    /\ wrapper = "WithTransaction"
    /\ phase = "commit"
    /\ \E e \in EndTx(Outcomes), t \in OpTimes :
          /\ OperationReturns(e, t)
          /\ committed' = IF e = Nil THEN committed + 1 ELSE committed
    /\ ownTx' = "done"
    /\ UNCHANGED <<wrapper, phase, conns, callerTx, unit, fnCalls, fnErr,
                   ret>>
    /\ UNCHANGED <<regVars, lockVars, migVars>>

\* WithTransaction, lines 233-243: the return after the retry of Rollback
\* (the error of fn) or of Commit (its result), and the deferred db.Close()
WithTransactionReturn ==
    /\ wrapper = "WithTransaction"
    /\ phase \in {"rollback", "commit"}
    /\ pc = "done"
    /\ ret' = IF phase = "rollback" THEN fnErr ELSE result
    /\ conns' = conns - 1
    /\ phase' = "returned"
    /\ UNCHANGED <<wrapper, ownTx, callerTx, unit, committed, fnCalls, fnErr>>
    /\ UNCHANGED retryVars
    /\ UNCHANGED <<regVars, lockVars, migVars>>

\* a caller invokes one of the wrappers; the Tx* wrappers are handed an
\* open transaction
InitTx ==
    /\ wrapper \in TxWrappers
    /\ IF wrapper = "WithTransaction"
       THEN /\ phase = "getdb"
            /\ pc = "outside"
       ELSE /\ phase = "op"
            /\ pc = "call"
    /\ config \in DefaultRetryConfigs
    /\ err = Nil
    /\ attempt = 0
    /\ now = 0
    /\ elapsed = 0
    /\ baseDelay = 0
    /\ jitter = 0
    /\ delay = 0
    /\ result = "none"
    /\ exit = "none"
    /\ calls = 0
    /\ lockErrs = 0
    /\ sleeps = 0
    /\ slept = 0
    /\ conns = 0
    /\ ownTx = "none"
    /\ callerTx = (wrapper \in TxOpWrappers)
    /\ unit = NoUnit
    /\ committed = 0
    /\ fnCalls = 0
    /\ fnErr = "none"
    /\ ret = "none"
    /\ InitNoSources
    /\ InitNoCallers
    /\ InitNoMigrations

NextTx ==
    \/ TransactionAttempt
    \/ TxCall
    \/ WrapperReturn
    \/ WithTransactionGetDB
    \/ WithTransactionBegin
    \/ WithTransactionFn
    \/ WithTransactionRollback
    \/ WithTransactionCommit
    \/ WithTransactionReturn
    \/ Decide
    \/ Sleep

SpecTx == InitTx /\ [][NextTx]_vars

---------------------------------------------------------------------------
(* The executor called directly.                                           *)

Init ==
    /\ InitRetry
    /\ wrapper = "retryDatabaseOperation"
    /\ InitNoTx
    /\ InitNoSources
    /\ InitNoCallers
    /\ InitNoMigrations

Next == CallOperation \/ Decide \/ Sleep

Spec == Init /\ [][Next]_vars

\* The executor runs on its caller's goroutine and nothing blocks it but
\* its own time.Sleep: it always takes its next step.
FairSpec == Spec /\ WF_vars(Next)

\* The executor given an operation that always returns a transient-lock
\* error.
NextLocked == CallLockedOperation \/ Decide \/ Sleep

LockedSpec == Init /\ [][NextLocked]_vars /\ WF_vars(NextLocked)

---------------------------------------------------------------------------
(* Properties of retryDatabaseOperation.                                   *)

HardError(e) == e # "nil" /\ ~TransientLock(e)

\* C1: an error whose text contains neither "database is locked" nor
\* "SQLITE_BUSY" ends the executor: after the invocation that returned it
\* the executor only decides and returns that same error, it does not sleep
\* (it has slept once per earlier invocation and no more) and it does not
\* invoke the operation again; returned by the first invocation, the
\* operation has been invoked exactly once.
C1_HardErrorIsNotRetried ==
    (calls > 0 /\ HardError(err)) =>
        /\ pc \in {"decide", "done"}
        /\ sleeps = calls - 1
        /\ lockErrs = calls - 1
        /\ lockErrs = 0 => calls = 1
        /\ pc = "done" => result = err /\ exit = "non-retryable"

C1_Witness ==
    /\ pc = "done"
    /\ result = "UNIQUE constraint failed"
    /\ calls = 2
    /\ sleeps = 1

\* C2: when the first n invocations returned a transient-lock error and
\* invocation n+1 returns nil, the executor returns nil having invoked the
\* operation exactly n+1 times (and slept n times), and it never invokes
\* the operation after it has returned nil.
C2_SuccessReturnsNil ==
    (calls > 0 /\ err = "nil") =>
        /\ pc \in {"decide", "done"}
        /\ calls = lockErrs + 1
        /\ sleeps = lockErrs
        /\ pc = "done" => result = "nil"

C2_Witness ==
    /\ pc = "done"
    /\ result = "nil"
    /\ lockErrs = 2
    /\ calls = 3

C4_GivesUpOnlyWhenBudgetIsExhausted ==
    (/\ pc = "done"
     /\ TransientLock(result)
     /\ config.BaseDelay >= 0
     /\ config.MaxDelay >= 0) => elapsed >= config.MaxRetryDuration

\* C5: the pre-jitter delay computed for attempt k is
\* min(BaseDelay * 2^k, MaxDelay), the power of two and the product taken in
\* the machine's integers.  Attempt k is the value of attempt before the
\* increment of line 94.
PreJitter(k) ==
    Min(Wrap(config.BaseDelay * Wrap(Pow2(k))), config.MaxDelay)

C5_PreJitterDelay ==
    /\ pc = "sleep" => baseDelay = PreJitter(attempt - 1)
    /\ exit = "no time remaining" => baseDelay = PreJitter(attempt)

C5_Witness ==
    /\ pc = "sleep"
    /\ attempt = 3
    /\ config.BaseDelay = 1
    /\ config.MaxDelay = 2
    /\ baseDelay = 2

\* C6 as stated: the delay slept is some value of
\* [(1-j)*b, (1+j)*b], clamped to be at least 0 and at most
\* MaxRetryDuration - elapsed.  (Stated for the configurations with
\* BaseDelay >= 0 and MaxDelay >= 0; hundredths on both sides.)
C6_SleptDelayIsClampedJitter ==
    (pc = "sleep" /\ config.BaseDelay >= 0 /\ config.MaxDelay >= 0) =>
        LET lo == Min((100 - config.JitterPercent) * baseDelay,
                      (100 + config.JitterPercent) * baseDelay)
            hi == Max((100 - config.JitterPercent) * baseDelay,
                      (100 + config.JitterPercent) * baseDelay)
            remaining == config.MaxRetryDuration - elapsed
        IN  \/ lo <= 100 * delay /\ 100 * delay <= hi /\ delay <= remaining
            \/ delay = remaining /\ hi >= 100 * remaining

\* C6 amended: the delay computed is min(d, MaxRetryDuration - elapsed),
\* where d is b + jitter for a whole jitter of at most j*|b| in size, and d
\* is BaseDelay (not 0) when b + jitter is negative; the executor sleeps
\* only a delay greater than 0.
C6_SleptDelayFallsBackToBaseDelay ==
    (pc = "sleep" \/ exit = "no time remaining") =>
        LET s == Wrap(baseDelay + jitter)
            d == IF s < 0 THEN config.BaseDelay ELSE s
        IN  /\ 100 * Abs(jitter) <= config.JitterPercent * Abs(baseDelay)
            /\ delay = Min(d, config.MaxRetryDuration - elapsed)
            /\ pc = "sleep" <=> delay > 0

C6_Witness ==
    /\ pc = "sleep"
    /\ config.BaseDelay > 0
    /\ config.MaxDelay > 0
    /\ baseDelay > 0
    /\ baseDelay + jitter < 0
    /\ delay = config.BaseDelay

\* C7: WithTransactionRetry: every attempt is one whole unit connect,
\* begin, fn, commit that leaves no connection and no transaction behind
\* it; an attempt commits only if it connected, began and its own call of
\* fn returned nil; after a failed attempt nothing is committed when the
\* loop sleeps and starts over; and when the wrapper returns nil exactly one
\* commit has taken place, that of the last attempt.
C7_WholeUnitIsRetried ==
    wrapper = "WithTransactionRetry" =>
        /\ conns = 0
        /\ ownTx = "none"
        /\ fnCalls <= calls
        /\ unit.fn # "none" => unit.connected /\ unit.began
        /\ unit.committed =>
              /\ unit.connected
              /\ unit.began
              /\ unit.fn = Nil
              /\ unit.err = Nil
        /\ committed <= 1
        /\ pc = "sleep" => committed = 0
        /\ committed = 1 => unit.committed /\ pc \in {"decide", "done"}
        /\ ret = Nil => committed = 1 /\ unit.committed

C7_Witness ==
    /\ wrapper = "WithTransactionRetry"
    /\ ret = Nil
    /\ calls = 3
    /\ fnCalls = 2
    /\ sleeps = 2
    /\ committed = 1

\* C8: for each of the wrappers, while the retry loop sleeps between two
\* attempts (pc = "sleep") the wrapper holds no connection and no
\* transaction that it opened.
C8_NothingHeldWhileSleeping ==
    pc = "sleep" => conns = 0 /\ ownTx # "open"


\* C9: after any sequence of RegisterMigrations calls since the last reset
\* the registry holds exactly the sources registered, in registration
\* order, one entry per call, whatever their names and fields;
\* GetRegisteredSources returns exactly those; and RegisterMigrations is
\* enabled for every source.
C9_RegistrationOrderIsKept ==
    /\ Elems(heap, sources) = registered
    /\ sources.len = Len(registered)
    /\ lastOp = "get" => Elems(heap, snapshot) = registered
    /\ Len(registered) < MaxSources =>
          \A source \in MigrationSources : ENABLED RegisterMigrations(source)

C9_Witness ==
    /\ lastOp = "get"
    /\ snapshot.len = 3
    /\ Elems(heap, snapshot)[1].Name = Elems(heap, snapshot)[2].Name
    /\ Elems(heap, snapshot)[1] # Elems(heap, snapshot)[2]
    /\ Elems(heap, snapshot)[3] = ZeroSource

\* C10: a step in which the caller writes to or truncates the slice
\* GetRegisteredSources returned leaves the registry as it was, and a
\* RegisterMigrations or ClearRegistry step leaves the elements of that
\* slice as they were.
C10_SnapshotIsACopy ==
    [][ /\ lastOp' \in {"write", "truncate"} =>
              /\ sources' = sources
              /\ Elems(heap', sources') = Elems(heap, sources)
        /\ lastOp' \in {"register", "clear"} =>
              /\ snapshot' = snapshot
              /\ Elems(heap', snapshot') = Elems(heap, snapshot) ]_vars

C10_Witness ==
    /\ lastOp = "write"
    /\ snapshot.len = 2
    /\ snapshot.cap = 2
    /\ sources.len = 3
    /\ Elems(heap, snapshot)[1] # registered[1]
    /\ Elems(heap, snapshot)[2] = registered[2]
    /\ Elems(heap, sources) = registered


IsPrefix(a, b) == Len(a) <= Len(b) /\ \A i \in 1..Len(a) : a[i] = b[i]

\* the goroutines between Lock and Unlock, and between RLock and RUnlock
Writing == {p \in Writers : procs[p].pc \in {"load", "store", "Unlock"}}
Reading == {p \in Readers : procs[p].pc \in {"copy", "RUnlock"}}

\* C11: under every interleaving of concurrent RegisterMigrations and
\* GetRegisteredSources calls no registration is lost (the registry holds
\* one entry per append made, and at least one per call that returned, n
\* entries once n calls returned and none is in flight), a writer's
\* critical section overlaps no reader's and no other writer's, and every
\* snapshot a reader holds is a prefix of the registered sequence from then
\* on.
C11_ConcurrentCallsAreSerialized ==
    /\ Elems(heap, sources) = registered
    /\ completed <= sources.len
    /\ InFlight = {} => sources.len = completed
    /\ Cardinality(Writing) <= 1
    /\ Writing # {} => Reading = {}
    /\ \A p \in Readers : IsPrefix(procs[p].snap, Elems(heap, sources))

C11_Witness ==
    /\ completed = 3
    /\ InFlight = {}
    /\ sources.len = 3
    /\ procs["r1"].got
    /\ procs["r2"].got
    /\ Len(procs["r1"].snap) = 1
    /\ Len(procs["r2"].snap) = 2
    /\ procs["r1"].pc = "idle"
    /\ procs["r2"].pc = "idle"
    /\ registered[1] # registered[2]


\* what GetRegisteredSources would return in this state
Registered == Elems(heap, sources)

\* C12: a ClearRegistry step leaves the registry empty, so that
\* GetRegisteredSources returns an empty list and the next source
\* registered is at position 0; every step that is not a ClearRegistry
\* step (RegisterMigrations, the steps of UpAll, GetMigrationStats,
\* GetMigrationStatus, GetAllMigrations) keeps every registered source at
\* its position.
C12_OnlyClearRegistryRemoves ==
    [][ /\ lastOp' = "clear" =>
              /\ Registered' = <<>>
              /\ LET r == CopySources(heap', sources', FreeArray({sources'.arr}))
                 IN  Elems(r.heap, r.slice) = <<>>
        /\ (lastOp = "clear" /\ lastOp' = "register") =>
              /\ Len(Registered') = 1
              /\ Registered'[1] = registered'[1]
        /\ \/ IsPrefix(Registered, Registered')
           \/ lastOp' = "clear" /\ Registered # <<>> ]_vars

C12_Witness ==
    /\ up.runs = 2
    /\ up.pc = "returned"
    /\ up.executed # <<>>
    /\ lastOp = "GetAllMigrations"
    /\ Len(Registered) = 3
    /\ Registered = registered


\* C13: a call of UpAll that finds the registry empty returns nil at once:
\* it has opened no database, executed no statement, and has created or
\* changed no tracking table.
C13_EmptyRegistryIsANoOp ==
    [][ (up' # up /\ up'.snap = <<>>) =>
            /\ up'.pc = "returned"
            /\ up'.ret = Nil
            /\ up'.opens = 0
            /\ up'.executed = <<>>
            /\ tables' = tables ]_vars

C13_Witness ==
    /\ up.pc = "returned"
    /\ up.snap = <<>>
    /\ up.ret = Nil
    /\ up.runs = 2
    /\ lastOp = "UpAll"
    /\ \E name \in TableNames : tables[name].version = 2

\* the versions the run of UpAll has executed for the source at position i
ExecutedAt(i) ==
    {up.executed[k].version : k \in {n \in DOMAIN up.executed :
                                         up.executed[n].i = i}}

\* the versions the run of UpAll has executed out of the files of a source,
\* at whichever position of the snapshot the source is registered
ExecutedOf(source) ==
    UNION {ExecutedAt(i) : i \in {n \in DOMAIN up.snap :
                                      up.snap[n] = source}}

\* a directory source with a prefix, as runPrefixedMigrations takes it
PrefixedDirectory(source) ==
    /\ source.EmbedFS = "nil"
    /\ source.Directory # ""
    /\ source.Prefix # ""

\* C14: when the first UpAll has returned nil, any two directory sources of
\* its snapshot with distinct non-empty prefixes and overlapping versions
\* have both had all their up statements executed, each into a tracking
\* table of its own that records its own last version.
C14_PrefixedSourcesAreIsolated ==
    (up.pc = "returned" /\ up.ret = Nil /\ up.runs = 1) =>
        \A i, j \in DOMAIN up.snap :
            ( /\ i # j
              /\ PrefixedDirectory(up.snap[i])
              /\ PrefixedDirectory(up.snap[j])
              /\ up.snap[i].Prefix # up.snap[j].Prefix
              /\ Versions(up.snap[i]) \cap Versions(up.snap[j]) # {} )
            => /\ ExecutedOf(up.snap[i]) = Versions(up.snap[i])
               /\ ExecutedOf(up.snap[j]) = Versions(up.snap[j])
               /\ TableOf(up.snap[i]) # TableOf(up.snap[j])
               /\ \A v \in Versions(up.snap[i]) :
                      v <= tables[TableOf(up.snap[i])].version

\* C15: every step of UpAll that creates or changes a tracking table does so
\* on the table named Prefix + "schema_migrations" of the source being
\* processed ("schema_migrations" for an empty Prefix), for directory and
\* embedded sources alike.
C15_TableIsPrefixPlusSchemaMigrations ==
    [][ \A name \in TableNames :
            tables'[name] # tables[name] =>
                name = Chars(up.snap[up.i].Prefix) \o <<"schema_migrations">>
      ]_vars

\* the environment's errors: the database refuses a call of this run
Refused(e) == e \in MigrateOutcomes \ {Nil}

\* C16: when UpAll has returned nil and is called again on the same
\* registry and the same files, the second call executes no migration,
\* leaves every tracking table as it is, and does not return an error of
\* its own making (one the database did not raise during this call).
C16_UpAllIsIdempotent ==
    [][ ( /\ up.runs > 1
          /\ up.before.ret = Nil
          /\ up.before.snap = up.snap
          /\ up' # up )
        => /\ tables' = tables
           /\ up'.executed = <<>>
           /\ (up'.ret = "error" => Refused(up'.error.err)) ]_vars

\* no version of the source is left to run: its tracking table is clean and
\* at or above every version the source holds
NothingPending(source) ==
    LET t == tables[TableOf(source)]
    IN  Versions(source) # {} =>
            /\ ~t.dirty
            /\ \A v \in Versions(source) : v <= t.version

\* C17: UpAll takes the sources in registration order: at every step that
\* begins a migration of the source at position j, every source registered
\* before it has nothing pending, and the migrations executed are logged by
\* ascending position.
C17_SourcesInRegistrationOrder ==
    [][ (up.pc \in {"marking", "migrating"} /\ up' # up) =>
            /\ up.pc = "marking" =>
                   \A i \in 1..(up.i - 1) : NothingPending(up.snap[i])
            /\ \A k, l \in DOMAIN up'.executed :
                   k < l => up'.executed[k].i <= up'.executed[l].i ]_vars

\* the second migration of the second source runs after both migrations of
\* the first source, which has a tracking table of its own
C17_Witness ==
    /\ Len(up.snap) >= 2
    /\ TableOf(up.snap[1]) # TableOf(up.snap[2])
    /\ ExecutedAt(1) = {1, 2}
    /\ ExecutedAt(2) = {1}
    /\ up.pc = "migrating"
    /\ up.i = 2

\* C18: every migration UpAll executes for a source is a version of that
\* source above the version its tracking table records, and the lowest such
\* version; UpAll leaves the source only when no version above the table's
\* is left. So the versions above the watermark run once each, ascending,
\* and none at or below it runs again.
C18_PendingVersionsAscending ==
    [][ (up.pc \in {"marking", "migrating", "recording"} /\ up' # up) =>
            LET source == up.snap[up.i]
                t == tables[TableOf(source)]
                v == tables'[TableOf(source)].version
            IN  /\ (up.pc = "marking" /\ tables' # tables) =>
                       /\ v \in Versions(source)
                       /\ v > t.version
                       /\ \A w \in Versions(source) :
                              w > t.version => v <= w
                /\ up'.executed # up.executed =>
                       /\ up.pc = "migrating"
                       /\ up'.executed = up.executed \o
                              <<[i |-> up.i, version |-> t.version]>>
                /\ up'.pc = "source" =>
                       \A w \in Versions(source) : w <= v ]_vars

\* a source with versions 1 and 2 has run both, 1 before 2, and a later run
\* that finds the table at 2 has opened it and executed nothing
C18_Witness ==
    /\ up.runs = 2
    /\ up.before.ret = Nil
    /\ Len(up.snap) = 1
    /\ Versions(up.snap[1]) = {1, 2}
    /\ tables[TableOf(up.snap[1])].version = 2
    /\ up.opens = 1
    /\ up.executed = <<>>
    /\ up.pc = "returned"

\* C19: a transient-lock error raised while UpAll applies a migration ends
\* the run only after the retry executor has slept and called again until
\* its budget was used up.
C19_LockedMigrationIsRetried ==
    [][ ( /\ up.pc = "migrating"
          /\ up'.ret = "error"
          /\ TransientLock(up'.error.err) )
        => /\ sleeps' > 0
           /\ elapsed' >= config.MaxRetryDuration ]_vars

\* C20: when a migration of the source at position i fails (its version is
\* not recorded, or not executed, or left recorded dirty), UpAll returns at
\* that step an error
\* naming that source, with nothing more executed; a run that has returned
\* executes nothing and changes no table; and no step of any run lowers the
\* version a table records or drops a table: nothing is rolled back.
C20_FailureStopsTheRunWithoutRollback ==
    [][ /\ ( /\ up' # up
             /\ \/ up.pc \in {"marking", "recording"} /\ tables' = tables
                \/ up.pc = "migrating" /\ up'.executed = up.executed )
           => /\ up'.pc = "returned"
              /\ up'.ret = "error"
              /\ up'.error.source = up.snap[up.i].Name
              /\ up'.error.err # Nil
              /\ up'.executed = up.executed
        /\ (up.pc = "returned" /\ up'.runs = up.runs)
           => (up' = up /\ tables' = tables)
        /\ \A name \in TableNames :
               /\ tables'[name].version >= tables[name].version
               /\ tables[name].exists => tables'[name].exists ]_vars

\* the second of three sources failed at its version 2 after its version 1
\* and both versions of the first source had run: the error names it, its
\* table records 2 as dirty, the first source's table still records 2, and
\* the third source's table was never created
C20_Witness ==
    /\ Len(up.snap) = 3
    /\ up.pc = "returned"
    /\ up.ret = "error"
    /\ up.i = 2
    /\ up.error.source = up.snap[2].Name
    /\ up.executed = <<[i |-> 1, version |-> 1], [i |-> 1, version |-> 2],
                       [i |-> 2, version |-> 1]>>
    /\ tables[TableOf(up.snap[2])] =
           [exists |-> TRUE, version |-> 2, dirty |-> TRUE]
    /\ tables[TableOf(up.snap[1])] =
           [exists |-> TRUE, version |-> 2, dirty |-> FALSE]
    /\ ~tables[TableOf(up.snap[3])].exists

\* C21: when UpAll failed at a migration and is called again on the same
\* registry with the migration fixed (the database raises no error during
\* the second call), the second call does not fail: it goes on from the
\* failed version and returns nil.
C21_ResumeAfterFailure ==
    [][ ( /\ up.runs > 1
          /\ up.before.ret = "error"
          /\ up.before.snap = up.snap
          /\ \A i, j \in DOMAIN up.snap :
                 TableOf(up.snap[i]) = TableOf(up.snap[j]) =>
                     up.snap[i] = up.snap[j]
          /\ up' # up )
        => (up'.ret = "error" => Refused(up'.error.err)) ]_vars

\* the tracking table of the source marks version v as applied: it records
\* v or a later version, and not v as dirty
MarkedApplied(source, v) ==
    LET t == tables[TableOf(source)]
    IN  t.version > v \/ (t.version = v /\ ~t.dirty)

\* no other source of the snapshot uses the tracking table of this one
OwnTable(source) ==
    \A j \in DOMAIN up.snap :
        TableOf(up.snap[j]) = TableOf(source) => up.snap[j] = source

\* C22: in every state of the first UpAll on a new database, the states a
\* failure or a stop of the process leaves included, a version of a source
\* with a table of its own is marked applied in that table if and only if
\* its up statements were executed.
C22_RecordedIffExecuted ==
    up.runs = 1 =>
        \A i \in DOMAIN up.snap :
            OwnTable(up.snap[i]) =>
                \A v \in Versions(up.snap[i]) :
                    MarkedApplied(up.snap[i], v) <=>
                        v \in ExecutedOf(up.snap[i])

\* some tracking table records a lower version after the step than before,
\* or is gone
WatermarkLowered ==
    \E name \in TableNames :
        \/ tables'[name].version < tables[name].version
        \/ tables[name].exists /\ ~tables'[name].exists

\* C23: no step of UpAll, in any sequence of successful and failed calls
\* mixed with the Migrator's operations, lowers the version a tracking
\* table records; a step that lowers one is a step of Migrator.Down, Goto,
\* Force or Drop.
C23_OnlyExplicitCallsLower ==
    [][ /\ up' # up => ~WatermarkLowered
        /\ WatermarkLowered => lastOp' \in {"Down", "Goto", "Force", "Drop"}
      ]_vars

\* Down has taken the default table back to version 1 after an UpAll that
\* applied versions 1 and 2 and returned nil
C23_Witness ==
    /\ lastOp = "Down"
    /\ up.pc = "returned"
    /\ up.ret = Nil
    /\ Len(up.snap) >= 1
    /\ TableOf(up.snap[1]) = MigratorTable
    /\ ExecutedAt(1) = {1, 2}
    /\ tables[MigratorTable] = [exists |-> TRUE, version |-> 1, dirty |-> FALSE]

\* the last discovery call loaded a directory source
LoadedDirectory ==
    /\ found.op = "loadMigrationsFromSource"
    /\ found.source.EmbedFS = "nil"
    /\ found.source.Directory # ""

\* the versions among the files the last discovery call listed
ListedVersions ==
    LET loaded == loadMigrationsFromDirectory(found.source, found.listing)
    IN  {loaded.migrations[n].Version : n \in DOMAIN loaded.migrations}

\* some version below a listed one is not listed
HasGap(versions) ==
    \E v \in versions : \E k \in 1..(v - 1) : k \notin versions

\* C24: loading a directory source whose versions have a gap returns the
\* error of the sequence validation, which names the version expected, and
\* no migration.
C24_VersionGapFailsLoad ==
    (LoadedDirectory /\ HasGap(ListedVersions)) =>
        /\ found.err.text = "migration sequence gap: expected version"
        /\ found.migrations = <<>>

\* the *.sql files the last discovery call listed whose names are not of
\* the shape <version>_<name>.<up|down>.sql
Malformed ==
    {f \in found.listing :
        /\ HasSuffix(f, <<".sql">>)
        /\ parseMigrationFilename(f).err.text # Nil}

\* C25: loading a directory source that holds a *.sql file with a malformed
\* name returns an error and no migrations; the file is not passed over.
C25_MalformedNameFailsLoad ==
    (LoadedDirectory /\ Malformed # {}) =>
        /\ found.err.text # Nil
        /\ found.migrations = <<>>

\* two files the last discovery call listed have the same version and the
\* same direction
Duplicates ==
    {pair \in found.listing \X found.listing :
        LET f == parseMigrationFilename(pair[1])
            g == parseMigrationFilename(pair[2])
        IN  /\ pair[1] # pair[2]
            /\ f.err.text = Nil
            /\ g.err.text = Nil
            /\ f.version = g.version
            /\ f.isUp = g.isUp}

\* C26: loading a directory source that holds two files of the same version
\* and direction returns an error and no migrations; the content of neither
\* file takes the place of the other's.
C26_DuplicateFailsLoad ==
    (LoadedDirectory /\ Duplicates # {}) =>
        /\ found.err.text # Nil
        /\ found.migrations = <<>>

\* the well-formed files of one version and direction among the files the
\* last discovery call listed
FilesOf(version, isUp) ==
    {f \in found.listing :
        LET parsed == parseMigrationFilename(f)
        IN  /\ parsed.err.text = Nil
            /\ parsed.version = version
            /\ parsed.isUp = isUp}

\* C27: every migration a directory load returns has the content of an up
\* file of its version as UpContent, so a version with only a down file is
\* not returned; a version with an up file and no down file is returned
\* with empty DownContent.
C27_ReturnedVersionsHaveUpFile ==
    LoadedDirectory =>
        /\ \A n \in DOMAIN found.migrations :
              \E f \in FilesOf(found.migrations[n].Version, TRUE) :
                  found.migrations[n].UpContent = Content(f)
        /\ \A version \in ListedVersions :
              (FilesOf(version, TRUE) # {} /\ FilesOf(version, FALSE) = {}) =>
                  \E n \in DOMAIN found.migrations :
                      /\ found.migrations[n].Version = version
                      /\ found.migrations[n].DownContent = <<>>

\* the files the last discovery call listed are matched pairs: every file is
\* well formed and its version has one up file and one down file
MatchedPairs ==
    \A f \in found.listing :
        LET parsed == parseMigrationFilename(f)
        IN  /\ parsed.err.text = Nil
            /\ Cardinality(FilesOf(parsed.version, TRUE)) = 1
            /\ Cardinality(FilesOf(parsed.version, FALSE)) = 1

\* the versions of the well-formed files the last discovery call listed
PairedVersions ==
    {parseMigrationFilename(f).version : f \in found.listing}

\* C28: for a source with a directory that exists, countMigrationFiles
\* returns the number of files of the directory whose name ends in .sql,
\* and the load returns one migration for each distinct version: n matched
\* pairs are 2n files and n migrations, each with the content of its two
\* files.
C28_PairsCountTwiceTheMigrations ==
    /\ (found.op = "countMigrationFiles" /\ Exists(found.source.Directory)) =>
          /\ found.err.text = Nil
          /\ found.count =
                Cardinality({f \in found.listing : HasSuffix(f, <<".sql">>)})
          /\ MatchedPairs => found.count = 2 * Cardinality(PairedVersions)
    /\ (LoadedDirectory /\ Exists(found.source.Directory) /\ MatchedPairs) =>
          /\ found.err.text = Nil
          /\ Len(found.migrations) = Cardinality(PairedVersions)
          /\ \A n \in DOMAIN found.migrations :
                LET m == found.migrations[n]
                IN  /\ m.Version \in PairedVersions
                    /\ \E f \in FilesOf(m.Version, TRUE) :
                          m.UpContent = Content(f)
                    /\ \E f \in FilesOf(m.Version, FALSE) :
                          m.DownContent = Content(f)
                    /\ \A k \in DOMAIN found.migrations :
                          found.migrations[k].Version = m.Version => k = n

\* two matched pairs were counted as four files
C28_Witness ==
    /\ found.op = "countMigrationFiles"
    /\ found.source.Name = "test-source"
    /\ MatchedPairs
    /\ Cardinality(PairedVersions) = 2
    /\ found.count = 4

\* the source a run of UpAll is about to open has neither a directory nor an
\* embedded file system
AtUnlocatedSource ==
    /\ up.pc = "source"
    /\ up.i <= Len(up.snap)
    /\ SourceAt(up.snap, up.i).Directory = ""
    /\ SourceAt(up.snap, up.i).EmbedFS = "nil"

\* C29: a run of UpAll that reaches a source with neither Directory nor
\* EmbedFS returns an error that names the source; it does not go on to the
\* next source.
C29_UnlocatedSourceFailsUpAll ==
    [][AtUnlocatedSource =>
          /\ up'.pc = "returned"
          /\ up'.ret = "error"
          /\ up'.error.source = SourceAt(up.snap, up.i).Name]_vars

\* C30: a discovery call on a source that has both a Directory and an
\* EmbedFS returns an error; it does not pick one of the two locations and
\* return what it finds there.
C30_AmbiguousSourceIsRejected ==
    (/\ found.op # "none"
     /\ found.source.Directory # ""
     /\ found.source.EmbedFS # "nil") =>
        /\ found.err.text # Nil
        /\ found.count = 0
        /\ found.migrations = <<>>

\* C31: a discovery call on a source that has only an embedded file system,
\* for which discovery is not implemented, returns a "not implemented" error;
\* it does not return success with nothing found.
C31_EmbeddedDiscoveryIsNotImplemented ==
    (/\ found.op # "none"
     /\ found.source.Directory = ""
     /\ found.source.EmbedFS # "nil") =>
        found.err.text = "not implemented"

\* the two read-only functions of the status
StatusOps == {"GetMigrationStatus", "GetMigrationStats"}

\* the status s reports the count of the source, or its load error with a
\* count of 0
Reports(s, source, d) ==
    LET counted == countMigrationFiles(source, d)
    IN  /\ source.Name \in DOMAIN s.sources
        /\ IF counted.err.text = Nil
           THEN /\ s.sources[source.Name].error = Nil
                /\ s.sources[source.Name].migration_count = counted.count
           ELSE /\ s.sources[source.Name].error = counted.err.text
                /\ s.sources[source.Name].migration_count = 0

\* C32: a call of GetMigrationStatus or GetMigrationStats leaves the
\* registry, the tracking tables and the directory as they were, and
\* GetMigrationStatus returns a nil error and reports for every registered
\* source its count, or its load error with a count of 0.
C32_StatusIsReadOnlyAndComplete ==
    [][lastOp' \in StatusOps =>
          /\ registered' = registered
          /\ sources' = sources
          /\ Elems(heap', sources') = Elems(heap, sources)
          /\ tables' = tables
          /\ tempDir' = tempDir
          /\ lastOp' = "GetMigrationStatus" =>
                /\ found'.err = NoError
                /\ \A i \in DOMAIN registered :
                      Reports(found'.status, registered[i], tempDir)]_vars

\* C39: the number GetMigrationStatus reports as registered_sources is the
\* number of entries of its sources map, and GetMigrationStats returns one
\* entry for every registered source.
C39_OneEntryPerRegisteredSource ==
    /\ found.op = "GetMigrationStatus" =>
          found.status.registered_sources =
              Cardinality(DOMAIN found.status.sources)
    /\ found.op = "GetMigrationStats" =>
          Cardinality(DOMAIN found.stats) = Len(registered)

\* the first position of a slice of migrations whose version is not the
\* position; 0 when the versions are 1, 2, ..., n in this order
FirstGap(migrations) ==
    IF \A i \in DOMAIN migrations : migrations[i].Version = i THEN 0
    ELSE CHOOSE i \in DOMAIN migrations :
             /\ migrations[i].Version # i
             /\ \A j \in 1..(i - 1) : migrations[j].Version = j

\* C34: validateMigrationSequence returns nil exactly when the versions of
\* the migrations, in the order given, are 1, 2, ..., n; otherwise its error
\* carries the version expected at the first position that differs and the
\* version found there.
C34_SequenceIsOneToN ==
    found.op = "validateMigrationSequence" =>
        LET gap == FirstGap(found.migrations)
        IN  IF gap = 0 THEN found.err.text = Nil
            ELSE /\ found.err.text =
                       "migration sequence gap: expected version"
                 /\ found.err.arg = <<gap, found.migrations[gap].Version>>

\* versions 1, 2, 4 were refused: 3 expected, 4 found
C34_Witness ==
    /\ found.op = "validateMigrationSequence"
    /\ Len(found.migrations) = 3
    /\ FirstGap(found.migrations) = 3
    /\ found.err.arg = <<3, 4>>

\* the version parts made of decimal digits only, with their values
DigitValue == (<<"1">> :> 1) @@ (<<"001">> :> 1) @@ (<<"002">> :> 2)
              @@ (<<"003">> :> 3)

\* the ways to read a file name as <digits>_<name>.(up|down).sql
Shapes(filename) ==
    {shape \in [version : DOMAIN DigitValue,
                name : {SubSeq(filename, i, j) :
                           i \in 1..(Len(filename) + 1),
                           j \in 0..Len(filename)},
                direction : {<<".up">>, <<".down">>}] :
        filename = shape.version \o <<"_">> \o shape.name
                     \o shape.direction \o <<".sql">>}

\* C35: parseMigrationFilename succeeds exactly on the file names of the
\* shape <digits>_<name>.(up|down).sql, with the value of the digits as the
\* version, the name, and isUp for .up.sql; on every other name it returns
\* an error and version 0.
C35_ParseAcceptsExactlyTheShape ==
    found.op = "parseMigrationFilename" =>
        IF Shapes(found.filename) # {}
        THEN /\ found.err.text = Nil
             /\ \E shape \in Shapes(found.filename) :
                   /\ found.version = DigitValue[shape.version]
                   /\ found.name = shape.name
                   /\ found.isUp = (shape.direction = <<".up">>)
        ELSE /\ found.err.text # Nil
             /\ found.version = 0

\* a source with a directory or an embedded file system
Located(source) == source.Directory # "" \/ source.EmbedFS # "nil"

\* C36: when the first UpAll on a new database has returned nil, the up
\* statements of every migration of every source of its snapshot that has a
\* location have been executed, whatever the prefixes of the sources are.
C36_NilMeansEveryMigrationExecuted ==
    (up.pc = "returned" /\ up.ret = Nil /\ up.runs = 1) =>
        \A i \in DOMAIN up.snap :
            Located(up.snap[i]) =>
                ExecutedOf(up.snap[i]) = Versions(up.snap[i])

\* C38: UpAll has at most one migrate instance open at any time, only while
\* it runs the migrations of a source, and none when it goes on to the next
\* source or has returned, with nil or with an error.
C38_HandleClosedOnEveryPath ==
    /\ up.handles <= 1
    /\ up.pc \in {"idle", "source", "returned"} => up.handles = 0
    /\ up.pc \in {"marking", "migrating", "recording"} => up.handles = 1

\* the second run of UpAll has returned an error after it opened a handle
\* for each of two sources
C38_Witness ==
    /\ up.pc = "returned"
    /\ up.ret = "error"
    /\ up.runs = 2
    /\ up.opens = 2
    /\ up.handles = 0

\* fn was called and returned the error e
FnFailed(e) == e \notin {"none", Nil}

\* the part of C37 on an error of fn: the attempt of WithTransactionRetry in
\* which fn returned an error committed nothing and reports that error,
\* whether its rollback succeeded or not; WithTransaction then returns that
\* error, with nothing committed and its transaction ended by the rollback
FnErrorIsReported ==
    /\ (wrapper = "WithTransactionRetry" /\ FnFailed(unit.fn)) =>
          /\ ~unit.committed
          /\ committed = 0
          /\ unit.err = unit.fn
    /\ (wrapper = "WithTransaction" /\ FnFailed(fnErr)) =>
          /\ committed = 0
          /\ phase \in {"rollback", "returned"}
          /\ phase = "returned" => ret = fnErr /\ ownTx = "done"

\* C37 as stated: an error of fn is what the attempt reports, after a
\* rollback and without a commit; and WithTransaction, when it has
\* returned, has invoked fn exactly once, whatever db.Begin, tx.Rollback and
\* tx.Commit answered.
C37_FnInvokedExactlyOnce ==
    /\ FnErrorIsReported
    /\ (wrapper = "WithTransaction" /\ phase = "returned") => fnCalls = 1

\* C37 amended: an error of fn is what the attempt reports, after a
\* rollback and without a commit; and WithTransaction invokes fn at most
\* once: exactly once when db.Begin succeeded, within its retries, and not
\* at all when GetDB or db.Begin failed.
C37_FnInvokedOnceAfterBegin ==
    /\ FnErrorIsReported
    /\ wrapper = "WithTransaction" =>
          /\ fnCalls <= 1
          /\ phase \in {"rollback", "commit"} => fnCalls = 1
          /\ phase = "returned" => (fnCalls = 1 <=> ownTx # "none")

\* WithTransaction has returned the error of fn after its rollback was
\* tried twice and failed
C37_Witness ==
    /\ wrapper = "WithTransaction"
    /\ phase = "returned"
    /\ fnErr = ErrConstraint
    /\ ret = ErrConstraint
    /\ calls >= 2
    /\ result # Nil
    /\ fnCalls = 1

\* the migrations a run has executed: the source and the version of each
ExecutedBy(run) ==
    {<<run.snap[run.executed[k].i], run.executed[k].version>> :
        k \in DOMAIN run.executed}

\* C33: when two goroutines run UpAll at the same time on the same database
\* and the same sources, no version of a source is executed by both, and
\* when both have returned every tracking table is clean and at the last
\* version of its source.
C33_ConcurrentRunsExecuteOnce ==
    /\ ExecutedBy(up) \cap ExecutedBy(peer) = {}
    /\ (/\ up.pc = "returned" /\ up.ret = Nil
        /\ peer.pc = "returned" /\ peer.ret = Nil) =>
          \A i \in DOMAIN up.snap : NothingPending(up.snap[i])

====
